---- MODULE Spec2Model ----
(***************************************************************************)
(* Model of the node-link codec of openclash-panel                         *)
(* (src/web/protocol_parser.py, class ProtocolParser).                     *)
(*                                                                         *)
(* A Python str is a sequence of code points (naturals), a bytes object a  *)
(* sequence of naturals below 256.  A Python value stored in a dict is a   *)
(* tagged value (PyStr, PyInt, PyBool, PyNone) so that values of different Python  *)
(* types can be compared.  A dict is a function from key names to values.  *)
(***************************************************************************)
EXTENDS Integers, Sequences, FiniteSets, TLC

VARIABLES pc, input, link, outcome, encoded,
          nodes_file, request, at, lines, response

vars == <<pc, input, link, outcome, encoded, nodes_file, request, at, lines, response>>

\* The state of the web application: the text of NODES_FILE and, for each
\* request being served, the request, the point its handler has reached, its
\* local list `lines` and its response.
appVars == <<nodes_file, request, at, lines, response>>

\* The state of one call of the codec.
codecVars == <<pc, link, outcome, encoded>>

(***************************************************************************)
(* Characters and string literals                                          *)
(***************************************************************************)

\* The printable ASCII characters, code points 32..126, in order.
AsciiTable ==
  <<" ", "!", "\"", "#", "$", "%", "&", "'", "(", ")", "*", "+", ",", "-", ".", "/",
    "0", "1", "2", "3", "4", "5", "6", "7", "8", "9", ":", ";", "<", "=", ">", "?",
    "@", "A", "B", "C", "D", "E", "F", "G", "H", "I", "J", "K", "L", "M", "N", "O",
    "P", "Q", "R", "S", "T", "U", "V", "W", "X", "Y", "Z", "[", "\\", "]", "^", "_",
    "backtick", "a", "b", "c", "d", "e", "f", "g", "h", "i", "j", "k", "l", "m", "n", "o",
    "p", "q", "r", "s", "t", "u", "v", "w", "x", "y", "z", "{", "|", "}", "~">>

\* The code point of a one-character literal.
Ord(c) ==
  CASE c = "\n" -> 10
    [] c = "\t" -> 9
    [] OTHER -> 31 + (CHOOSE i \in 1..95 : AsciiTable[i] = c)

\* The str written as a tuple of one-character literals.
T(lit) == [i \in DOMAIN lit |-> Ord(lit[i])]

Min(S) == CHOOSE x \in S : \A y \in S : x <= y

\* s[from:] and s[:to] with Python's 0-based slice bounds.
SliceFrom(s, from) == SubSeq(s, from + 1, Len(s))

\* str.startswith(p)
StartsWith(s, p) == Len(s) >= Len(p) /\ SubSeq(s, 1, Len(p)) = p

\* c in s
Contains(s, c) == \E i \in DOMAIN s : s[i] = c

\* 1-based index of the first c in s, 0 when there is none (str.find + 1).
Find(s, c) == IF Contains(s, c) THEN Min({i \in DOMAIN s : s[i] = c}) ELSE 0

\* 1-based index of the last c in s, 0 when there is none (str.rfind + 1).
RFind(s, c) == IF Contains(s, c) THEN Len(s) + 1 - Find([i \in DOMAIN s |-> s[Len(s) + 1 - i]], c) ELSE 0

\* str.split(c): the list of the fields between the occurrences of c.
RECURSIVE Split(_, _)
Split(s, c) ==
  IF ~Contains(s, c) THEN <<s>>
  ELSE LET i == Find(s, c)
       IN  <<SubSeq(s, 1, i - 1)>> \o Split(SubSeq(s, i + 1, Len(s)), c)

\* str.split(c, 1) / str.partition(c): head, whether c was found, tail.
Partition(s, c) ==
  LET i == Find(s, c)
  IN  IF i = 0 THEN [head |-> s, found |-> FALSE, tail |-> <<>>]
      ELSE [head |-> SubSeq(s, 1, i - 1), found |-> TRUE, tail |-> SubSeq(s, i + 1, Len(s))]

\* str.rpartition(c): when c is absent the whole string is the tail.
RPartition(s, c) ==
  LET i == RFind(s, c)
  IN  IF i = 0 THEN [head |-> <<>>, found |-> FALSE, tail |-> s]
      ELSE [head |-> SubSeq(s, 1, i - 1), found |-> TRUE, tail |-> SubSeq(s, i + 1, Len(s))]

\* str.isspace() of one character: the code points Python treats as whitespace.
IsSpace(c) ==
  c \in (9..13) \cup (28..32) \cup {133, 160, 5760, 8232, 8233, 8239, 8287, 12288}
        \cup (8192..8202)

\* str.strip(): leading and trailing whitespace removed.
Strip(s) ==
  LET keep == {i \in DOMAIN s : ~IsSpace(s[i])}
  IN  IF keep = {} THEN <<>>
      ELSE SubSeq(s, Min(keep), Len(s) + 1 - Min({Len(s) + 1 - i : i \in keep}))

IsDigit(c) == c \in Ord("0")..Ord("9")

\* The value of a non-empty string of ASCII digits.
RECURSIVE DigitsValue(_)
DigitsValue(d) ==
  IF d = <<>> THEN 0
  ELSE (10 * DigitsValue(SubSeq(d, 1, Len(d) - 1))) + (d[Len(d)] - Ord("0"))

\* str(n) of an integer.
RECURSIVE IntToStr(_)
IntToStr(n) ==
  IF n < 0 THEN <<Ord("-")>> \o IntToStr(0 - n)
  ELSE IF n < 10 THEN <<Ord("0") + n>>
  ELSE IntToStr(n \div 10) \o <<Ord("0") + (n % 10)>>

\* The text int() accepts once whitespace and sign are off: digits, which may be
\* separated by single underscores.
IntWellFormed(body) ==
  /\ body # <<>>
  /\ \A i \in DOMAIN body : IsDigit(body[i]) \/ body[i] = Ord("_")
  /\ IsDigit(body[1]) /\ IsDigit(body[Len(body)])
  /\ \A i \in DOMAIN body : body[i] = Ord("_") => body[i + 1] # Ord("_")

IntOfBody(sign, body) ==
  IF ~IntWellFormed(body) THEN [ok |-> FALSE, n |-> 0]
  ELSE [ok |-> TRUE, n |-> sign * DigitsValue(SelectSeq(body, IsDigit))]

IntOfStripped(t) ==
  IF t # <<>> /\ t[1] = Ord("-") THEN IntOfBody(0 - 1, Tail(t))
  ELSE IF t # <<>> /\ t[1] = Ord("+") THEN IntOfBody(1, Tail(t))
  ELSE IntOfBody(1, t)

\* int(s) of a str: surrounding whitespace and one sign are allowed, the digits
\* may be separated by single underscores; anything else raises ValueError.
\* (Non-ASCII decimal digits, which Python also accepts, are outside the inputs.)
ParseInt(s) == IntOfStripped(Strip(s))

(***************************************************************************)
(* Python values                                                           *)
(***************************************************************************)

PyStr(s)  == [t |-> "str",  s |-> s,    n |-> 0]
PyInt(n)  == [t |-> "int",  s |-> <<>>, n |-> n]
PyBool(b) == [t |-> "bool", s |-> <<>>, n |-> IF b THEN 1 ELSE 0]
PyNone    == [t |-> "None", s |-> <<>>, n |-> 0]

\* The text an f-string substitutes for a value: str(v).
Format(v) ==
  CASE v.t = "str"  -> v.s
    [] v.t = "int"  -> IntToStr(v.n)
    [] v.t = "bool" -> IF v.n = 1 THEN T(<<"T", "r", "u", "e">>) ELSE T(<<"F", "a", "l", "s", "e">>)
    [] OTHER        -> T(<<"N", "o", "n", "e">>)

\* Python truthiness of a value (`if v:`, `v or default`).
Truthy(v) ==
  CASE v.t = "str" -> v.s # <<>>
    [] v.t = "None" -> FALSE
    [] OTHER -> v.n # 0

\* dict.get(key, default)
Get(d, key, default) == IF key \in DOMAIN d THEN d[key] ELSE default

(***************************************************************************)
(* base64 and UTF-8                                                        *)
(***************************************************************************)

B64Alphabet ==
  T(<<"A", "B", "C", "D", "E", "F", "G", "H", "I", "J", "K", "L", "M", "N", "O", "P",
      "Q", "R", "S", "T", "U", "V", "W", "X", "Y", "Z", "a", "b", "c", "d", "e", "f",
      "g", "h", "i", "j", "k", "l", "m", "n", "o", "p", "q", "r", "s", "t", "u", "v",
      "w", "x", "y", "z", "0", "1", "2", "3", "4", "5", "6", "7", "8", "9", "+", "/">>)

IsB64Char(c) == \E i \in DOMAIN B64Alphabet : B64Alphabet[i] = c

\* The 6-bit value of a base64 alphabet character.
B64Value(c) == (CHOOSE i \in DOMAIN B64Alphabet : B64Alphabet[i] = c) - 1

\* base64.b64encode(bytes): three bytes become four characters, the last group
\* is padded with '='.
b64encode(bytes) ==
  LET n      == Len(bytes)
      groups == (n + 2) \div 3
      byte(k) == IF k <= n THEN bytes[k] ELSE 0
      sextet(g, j) ==
        LET b1 == byte(3 * g + 1)
            b2 == byte(3 * g + 2)
            b3 == byte(3 * g + 3)
        IN  CASE j = 1 -> b1 \div 4
              [] j = 2 -> ((b1 % 4) * 16) + (b2 \div 16)
              [] j = 3 -> ((b2 % 16) * 4) + (b3 \div 64)
              [] OTHER -> b3 % 64
      char(i) ==
        LET g == (i - 1) \div 4
            j == ((i - 1) % 4) + 1
        IN  IF (j = 3 /\ 3 * g + 2 > n) \/ (j = 4 /\ 3 * g + 3 > n)
            THEN Ord("=")
            ELSE B64Alphabet[sextet(g, j) + 1]
  IN  [i \in 1..(4 * groups) |-> char(i)]

\* How many alphabet characters s holds before position i.
B64DataBefore(s, i) == Cardinality({k \in 1..(i - 1) : IsB64Char(s[k])})

\* How many '=' s holds up to position i since the last alphabet character.
B64PadsAt(s, i) ==
  Cardinality({k \in 1..i : s[k] = Ord("=") /\ \A m \in k..(i - 1) : ~IsB64Char(s[m])})

\* Whether decoding stops at position i: an '=' that completes a quad holding
\* two or three data characters.
B64Stops(s, i) ==
  /\ s[i] = Ord("=")
  /\ B64DataBefore(s, i) % 4 >= 2
  /\ (B64DataBefore(s, i) % 4) + B64PadsAt(s, i) >= 4

\* Byte j of the data characters whose 6-bit values are v.
B64Byte(v, j) ==
  CASE (j - 1) % 3 = 0 -> (v[(4 * ((j - 1) \div 3)) + 1] * 4) + (v[(4 * ((j - 1) \div 3)) + 2] \div 16)
    [] (j - 1) % 3 = 1 -> ((v[(4 * ((j - 1) \div 3)) + 2] % 16) * 16) + (v[(4 * ((j - 1) \div 3)) + 3] \div 4)
    [] OTHER           -> ((v[(4 * ((j - 1) \div 3)) + 3] % 4) * 64) + v[(4 * ((j - 1) \div 3)) + 4]

\* The bytes of nd data characters: three for each quad, one or two for a last
\* group of two or three.
B64Bytes(v, nd) ==
  [j \in 1..((3 * (nd \div 4)) + (IF nd % 4 = 0 THEN 0 ELSE (nd % 4) - 1)) |-> B64Byte(v, j)]

B64Decoded(data, stopped) ==
  IF ~stopped /\ Len(data) % 4 # 0 THEN [ok |-> FALSE, bytes |-> <<>>]
  ELSE [ok |-> TRUE, bytes |-> B64Bytes([k \in DOMAIN data |-> B64Value(data[k])], Len(data))]

B64Upto(s, stopSet) ==
  IF stopSet = {} THEN B64Decoded(SelectSeq(s, IsB64Char), FALSE)
  ELSE B64Decoded(SelectSeq(SubSeq(s, 1, Min(stopSet)), IsB64Char), TRUE)

\* base64.b64decode(s) of a str, validate=False (binascii.a2b_base64, non-strict):
\* a non-ASCII character raises; characters outside the alphabet are skipped;
\* decoding stops at the '=' that completes a quad holding two or three data
\* characters; otherwise the number of data characters must be a multiple of 4.
b64decode(s) ==
  IF \E i \in DOMAIN s : s[i] >= 128 THEN [ok |-> FALSE, bytes |-> <<>>]
  ELSE B64Upto(s, {i \in DOMAIN s : B64Stops(s, i)})

IsCont(b) == b \in 128..191

\* The length of the well-formed UTF-8 sequence at the head of b, 0 when the head
\* is not well formed (overlong forms, surrogates and values above U+10FFFF are
\* rejected, as CPython's strict decoder does).
Utf8HeadLen(b) ==
  LET n == Len(b)
      c(k) == k <= n /\ IsCont(b[k])
  IN  CASE b[1] < 128 -> 1
        [] b[1] \in 194..223 /\ c(2) -> 2
        [] b[1] = 224 /\ n >= 2 /\ b[2] \in 160..191 /\ c(3) -> 3
        [] b[1] \in (225..236) \cup (238..239) /\ c(2) /\ c(3) -> 3
        [] b[1] = 237 /\ n >= 2 /\ b[2] \in 128..159 /\ c(3) -> 3
        [] b[1] = 240 /\ n >= 2 /\ b[2] \in 144..191 /\ c(3) /\ c(4) -> 4
        [] b[1] \in 241..243 /\ c(2) /\ c(3) /\ c(4) -> 4
        [] b[1] = 244 /\ n >= 2 /\ b[2] \in 128..143 /\ c(3) /\ c(4) -> 4
        [] OTHER -> 0

Utf8HeadPoint(b, len) ==
  CASE len = 1 -> b[1]
    [] len = 2 -> ((b[1] % 32) * 64) + (b[2] % 64)
    [] len = 3 -> ((b[1] % 16) * 4096) + ((b[2] % 64) * 64) + (b[3] % 64)
    [] OTHER   -> ((b[1] % 8) * 262144) + ((b[2] % 64) * 4096) + ((b[3] % 64) * 64) + (b[4] % 64)

RECURSIVE Utf8Points(_)
Utf8Rest(head, rest) == [ok |-> rest.ok, s |-> <<head>> \o rest.s]

Utf8Next(b, len) ==
  IF len = 0 THEN [ok |-> FALSE, s |-> <<>>]
  ELSE Utf8Rest(Utf8HeadPoint(b, len), Utf8Points(SubSeq(b, len + 1, Len(b))))

Utf8Points(b) == IF b = <<>> THEN [ok |-> TRUE, s |-> <<>>] ELSE Utf8Next(b, Utf8HeadLen(b))

\* bytes.decode('utf-8'): ASCII bytes are their own code points.
utf8_decode(b) ==
  IF \A i \in DOMAIN b : b[i] < 128 THEN [ok |-> TRUE, s |-> b] ELSE Utf8Points(b)

\* The UTF-8 bytes of one code point.
Utf8Bytes(p) ==
  CASE p < 128     -> <<p>>
    [] p < 2048    -> <<192 + (p \div 64), 128 + (p % 64)>>
    [] p < 65536   -> <<224 + (p \div 4096), 128 + ((p \div 64) % 64), 128 + (p % 64)>>
    [] OTHER       -> <<240 + (p \div 262144), 128 + ((p \div 4096) % 64),
                        128 + ((p \div 64) % 64), 128 + (p % 64)>>

RECURSIVE Utf8Concat(_)
Utf8Concat(s) == IF s = <<>> THEN <<>> ELSE Utf8Bytes(Head(s)) \o Utf8Concat(Tail(s))

\* str.encode(): UTF-8; a surrogate code point raises UnicodeEncodeError.
utf8_encode(s) ==
  IF \E i \in DOMAIN s : s[i] \in 55296..57343 THEN [ok |-> FALSE, bytes |-> <<>>]
  ELSE IF \A i \in DOMAIN s : s[i] < 128 THEN [ok |-> TRUE, bytes |-> s]
  ELSE [ok |-> TRUE, bytes |-> Utf8Concat(s)]

\* .decode('utf-8') of what b64decode returned.
DecodeUtf8(raw) == IF ~raw.ok THEN [ok |-> FALSE, s |-> <<>>] ELSE utf8_decode(raw.bytes)

\* base64.b64decode(text).decode('utf-8'), either call may raise.
b64decode_utf8(text) == DecodeUtf8(b64decode(text))


(***************************************************************************)
(* urllib.parse: urlparse, the netloc attributes, parse_qs                 *)
(***************************************************************************)

IsHex(c) == IsDigit(c) \/ c \in Ord("a")..Ord("f") \/ c \in Ord("A")..Ord("F")

HexValue(c) ==
  IF IsDigit(c) THEN c - Ord("0")
  ELSE IF c >= Ord("a") THEN c - Ord("a") + 10 ELSE c - Ord("A") + 10

\* unquote_to_bytes over a whole str: %xx with two hex digits is one byte, any
\* other character stands for its own UTF-8 bytes.
RECURSIVE UnquoteBytes(_)
UnquoteBytes(s) ==
  IF s = <<>> THEN <<>>
  ELSE IF s[1] = Ord("%") /\ Len(s) >= 3 /\ IsHex(s[2]) /\ IsHex(s[3])
       THEN <<(16 * HexValue(s[2])) + HexValue(s[3])>> \o UnquoteBytes(SubSeq(s, 4, Len(s)))
       ELSE Utf8Bytes(s[1]) \o UnquoteBytes(Tail(s))

\* How many bytes an ill-formed head takes with it: the longest prefix that
\* could still begin a well-formed sequence, at least one byte.
Utf8BadLen(b) ==
  LET n == Len(b)
      second == IF n < 2 THEN FALSE
                ELSE CASE b[1] = 224 -> b[2] \in 160..191
                       [] b[1] = 237 -> b[2] \in 128..159
                       [] b[1] = 240 -> b[2] \in 144..191
                       [] b[1] = 244 -> b[2] \in 128..143
                       [] b[1] \in (225..236) \cup (238..239) \cup (241..243) -> IsCont(b[2])
                       [] OTHER -> FALSE
  IN  IF ~second THEN 1
      ELSE IF b[1] >= 240 /\ n >= 3 /\ IsCont(b[3]) THEN 3 ELSE 2

RECURSIVE Utf8Replace(_)
Utf8ReplaceNext(b, len) ==
  IF len = 0
  THEN <<65533>> \o Utf8Replace(SubSeq(b, Utf8BadLen(b) + 1, Len(b)))
  ELSE <<Utf8HeadPoint(b, len)>> \o Utf8Replace(SubSeq(b, len + 1, Len(b)))

\* bytes.decode('utf-8', 'replace'): each ill-formed part becomes U+FFFD.
Utf8Replace(b) == IF b = <<>> THEN <<>> ELSE Utf8ReplaceNext(b, Utf8HeadLen(b))

\* urllib.parse.unquote(s): a str without '%' is returned as it is.
unquote(s) == IF ~Contains(s, Ord("%")) THEN s ELSE Utf8Replace(UnquoteBytes(s))

\* str.replace('+', ' ')
PlusToSpace(s) == [i \in DOMAIN s |-> IF s[i] = Ord("+") THEN Ord(" ") ELSE s[i]]

\* The pair parse_qsl keeps for one field, none for a field without '=' or with
\* an empty value.
QslPair(nv) ==
  IF nv.found /\ nv.tail # <<>>
  THEN <<[name |-> unquote(PlusToSpace(nv.head)), value |-> unquote(PlusToSpace(nv.tail))]>>
  ELSE <<>>

\* The (name, value) pairs parse_qsl(qs) keeps, in order: fields are separated
\* by '&', a field without '=' or with an empty value is dropped.
RECURSIVE QslPairs(_)
QslPairs(fields) ==
  IF fields = <<>> THEN <<>>
  ELSE QslPair(Partition(Head(fields), Ord("="))) \o QslPairs(Tail(fields))

parse_qs(qs) == IF qs = <<>> THEN <<>> ELSE QslPairs(Split(qs, Ord("&")))

\* query.get(key, [default])[0]: the first value given for key.
QueryFirst(query, key, default) ==
  IF \E i \in DOMAIN query : query[i].name = key
  THEN query[Min({i \in DOMAIN query : query[i].name = key})].value
  ELSE default

\* str.lower() on ASCII letters.
Lower(s) == [i \in DOMAIN s |-> IF s[i] \in Ord("A")..Ord("Z") THEN s[i] + 32 ELSE s[i]]

UrlResult(netloc, qry, fragment) ==
  [ok |-> Contains(netloc, Ord("[")) = Contains(netloc, Ord("]")), netloc |-> netloc,
   path |-> qry.head, query |-> qry.tail, fragment |-> fragment]

UrlTail(netloc, frag) == UrlResult(netloc, Partition(frag.head, Ord("?")), frag.tail)

UrlCutAt(body, cut) ==
  UrlTail(SubSeq(body, 1, cut - 1), Partition(SubSeq(body, cut, Len(body)), Ord("#")))

UrlBody(body) ==
  UrlCutAt(body, Min({i \in DOMAIN body : body[i] \in {Ord("/"), Ord("?"), Ord("#")}}
                     \cup {Len(body) + 1}))

UrlClean(clean) == UrlBody(SubSeq(clean, Find(clean, Ord(":")) + 3, Len(clean)))

\* urlparse(url) of a link that begins with "<scheme>://": tab, CR and LF are
\* removed, the netloc runs from the "//" to the first of / ? #, the fragment is
\* what follows the first '#', the query what follows the first '?' before it.
\* Unbalanced brackets in the netloc raise ValueError.  (Bracketed hosts and
\* non-ASCII netlocs, which Python validates further, are outside the inputs.)
urlparse(url) == UrlClean(SelectSeq(url, LAMBDA c : c \notin {9, 10, 13}))

UserOf(info) == IF info.found THEN PyStr(Partition(info.head, Ord(":")).head) ELSE PyNone

\* SplitResult.username: the part of the user-info before its first ':', None
\* when the netloc has no '@'.
username(netloc) == UserOf(RPartition(netloc, Ord("@")))

PasswordOf(found, up) == IF found /\ up.found THEN PyStr(up.tail) ELSE PyNone

PasswordIn(info) == PasswordOf(info.found, Partition(info.head, Ord(":")))

\* SplitResult.password: the part of the user-info after its first ':'.
password(netloc) == PasswordIn(RPartition(netloc, Ord("@")))

\* SplitResult._hostinfo for a host without brackets.
hostinfo(netloc) == Partition(RPartition(netloc, Ord("@")).tail, Ord(":"))

HostLower(z) == PyStr(Lower(z.head) \o (IF z.found THEN <<Ord("%")>> \o z.tail ELSE <<>>))

HostOf(h) == IF h = <<>> THEN PyNone ELSE HostLower(Partition(h, Ord("%")))

\* SplitResult.hostname: lower-cased up to a '%', None when empty.
hostname(netloc) == HostOf(hostinfo(netloc).head)

PortOf(p) ==
  IF p = <<>> THEN [ok |-> TRUE, v |-> PyNone]
  ELSE IF \E i \in DOMAIN p : ~IsDigit(p[i]) THEN [ok |-> FALSE, v |-> PyNone]
  ELSE IF DigitsValue(p) > 65535 THEN [ok |-> FALSE, v |-> PyNone]
  ELSE [ok |-> TRUE, v |-> PyInt(DigitsValue(p))]

\* SplitResult.port: None when absent or empty; raises ValueError unless it is
\* ASCII digits with a value in 0..65535.
port(netloc) == PortOf(hostinfo(netloc).tail)


(***************************************************************************)
(* json.loads and json.dumps, for objects whose values are strings,        *)
(* integers, true, false and null (arrays, nested objects and floats are   *)
(* outside the inputs)                                                     *)
(***************************************************************************)

IsJsonWs(c) == c \in {9, 10, 13, 32}

\* The first position at or after i that holds no JSON whitespace.
SkipWs(s, i) == Min({j \in i..Len(s) : ~IsJsonWs(s[j])} \cup {Len(s) + 1})

At(s, i) == IF i \in DOMAIN s THEN s[i] ELSE 0 - 1

JsonFail(i) == [ok |-> FALSE, v |-> <<>>, next |-> i]

\* The text read so far followed by what the rest of the string body gives.
JsonCons(head, rest) == [ok |-> rest.ok, v |-> head \o rest.v, next |-> rest.next]

\* The character a one-letter escape stands for, -1 for any other letter.
JsonSimpleEscape(e) ==
  CASE e = Ord("\"") -> Ord("\"")
    [] e = Ord("\\") -> Ord("\\")
    [] e = Ord("/")  -> Ord("/")
    [] e = Ord("b")  -> 8
    [] e = Ord("f")  -> 12
    [] e = Ord("n")  -> 10
    [] e = Ord("r")  -> 13
    [] e = Ord("t")  -> 9
    [] OTHER -> 0 - 1

RECURSIVE JsonStringBody(_, _)
\* The escape at i (a backslash) whose letter is e.
JsonEscapeAt(s, i, e, simple) ==
  IF simple >= 0 THEN JsonCons(<<simple>>, JsonStringBody(s, i + 2))
  ELSE IF e = Ord("u") /\ i + 5 <= Len(s) /\ \A k \in 2..5 : IsHex(s[i + k])
  THEN JsonCons(<<(4096 * HexValue(s[i + 2])) + (256 * HexValue(s[i + 3]))
                  + (16 * HexValue(s[i + 4])) + HexValue(s[i + 5])>>,
                JsonStringBody(s, i + 6))
  ELSE JsonFail(i)

JsonStringAt(s, i, c) ==
  IF c < 32 THEN JsonFail(i)
  ELSE IF c = Ord("\"") THEN [ok |-> TRUE, v |-> <<>>, next |-> i + 1]
  ELSE IF c = Ord("\\") THEN JsonEscapeAt(s, i, At(s, i + 1), JsonSimpleEscape(At(s, i + 1)))
  ELSE JsonCons(<<c>>, JsonStringBody(s, i + 1))

\* The characters of a JSON string body starting at i, up to the closing quote:
\* [ok, v, next] with next the position after the closing quote.
JsonStringBody(s, i) == JsonStringAt(s, i, At(s, i))

JsonLiteral(s, i, word, val) ==
  IF SubSeq(s, i, i + Len(word) - 1) = word
  THEN [ok |-> TRUE, v |-> val, next |-> i + Len(word)]
  ELSE [ok |-> FALSE, v |-> PyNone, next |-> i]

JsonStr(b) == [ok |-> b.ok, v |-> PyStr(b.v), next |-> b.next]

\* The run of digits at from.
JsonDigits(s, from) ==
  SubSeq(s, from, Min({j \in from..Len(s) : ~IsDigit(s[j])} \cup {Len(s) + 1}) - 1)

\* An integer whose digits begin at from; a leading zero ends the number: "01"
\* is 0 followed by extra data.
JsonNumber(i, sign, from, digits) ==
  IF digits = <<>> THEN [ok |-> FALSE, v |-> PyNone, next |-> i]
  ELSE IF digits[1] = Ord("0") THEN [ok |-> TRUE, v |-> PyInt(0), next |-> from + 1]
  ELSE [ok |-> TRUE, v |-> PyInt(sign * DigitsValue(digits)), next |-> from + Len(digits)]

JsonValueAt(s, i, c) ==
  IF c = Ord("\"") THEN JsonStr(JsonStringBody(s, i + 1))
  ELSE IF c = Ord("t") THEN JsonLiteral(s, i, T(<<"t", "r", "u", "e">>), PyBool(TRUE))
  ELSE IF c = Ord("f") THEN JsonLiteral(s, i, T(<<"f", "a", "l", "s", "e">>), PyBool(FALSE))
  ELSE IF c = Ord("n") THEN JsonLiteral(s, i, T(<<"n", "u", "l", "l">>), PyNone)
  ELSE IF c = Ord("-") THEN JsonNumber(i, 0 - 1, i + 1, JsonDigits(s, i + 1))
  ELSE IF IsDigit(c) THEN JsonNumber(i, 1, i, JsonDigits(s, i))
  ELSE [ok |-> FALSE, v |-> PyNone, next |-> i]

\* One JSON value at i: [ok, v, next].
JsonValue(s, i) == JsonValueAt(s, i, At(s, i))

RECURSIVE JsonMembers(_, _, _)
\* After a member's value: '}' ends the object, ',' leads to the next member.
JsonMemberEnd(s, i, acc, obj, after) ==
  IF At(s, after) = Ord("}") THEN [ok |-> TRUE, obj |-> obj, next |-> after + 1]
  ELSE IF At(s, after) = Ord(",") THEN JsonMembers(s, SkipWs(s, after + 1), obj)
  ELSE [ok |-> FALSE, obj |-> acc, next |-> i]

JsonMemberValue(s, i, acc, key, val) ==
  IF ~val.ok THEN [ok |-> FALSE, obj |-> acc, next |-> i]
  ELSE JsonMemberEnd(s, i, acc,
                     [k \in DOMAIN acc \cup {key} |-> IF k = key THEN val.v ELSE acc[k]],
                     SkipWs(s, val.next))

JsonMemberColon(s, i, acc, key, colon) ==
  IF At(s, colon) # Ord(":") THEN [ok |-> FALSE, obj |-> acc, next |-> i]
  ELSE JsonMemberValue(s, i, acc, key, JsonValue(s, SkipWs(s, colon + 1)))

JsonMemberKey(s, i, acc, k) ==
  IF ~k.ok THEN [ok |-> FALSE, obj |-> acc, next |-> i]
  ELSE JsonMemberColon(s, i, acc, k.v, SkipWs(s, k.next))

\* The members of an object from position i (at a key's opening quote) to the
\* closing brace: [ok, obj, next]; a repeated key keeps its last value.
JsonMembers(s, i, acc) ==
  IF At(s, i) # Ord("\"") THEN [ok |-> FALSE, obj |-> acc, next |-> i]
  ELSE JsonMemberKey(s, i, acc, JsonStringBody(s, i + 1))

JsonScalar(v) == [ok |-> v.ok, obj |-> <<>>, next |-> v.next]

\* The document from its first character: an object, or a single value.
JsonTop(s, start, first) ==
  IF At(s, start) # Ord("{") THEN JsonScalar(JsonValue(s, start))
  ELSE IF At(s, first) = Ord("}") THEN [ok |-> TRUE, obj |-> <<>>, next |-> first + 1]
  ELSE JsonMembers(s, first, <<>>)

JsonLoaded(s, isObject, top) ==
  [ok |-> top.ok /\ SkipWs(s, top.next) = Len(s) + 1, isObject |-> isObject, obj |-> top.obj]

JsonFrom(s, start) ==
  JsonLoaded(s, At(s, start) = Ord("{"), JsonTop(s, start, SkipWs(s, start + 1)))

\* json.loads(s): [ok, isObject, obj]; obj maps each key (a str) to its value.
\* ok is FALSE when json.loads raises; a document that is a string, a number or
\* a literal loads, but is no dict.
json_loads(s) == JsonFrom(s, SkipWs(s, 1))

\* config.get(key, default) on the loaded object, whose keys are strs.
JGet(obj, key, default) == IF key \in DOMAIN obj THEN obj[key] ELSE default

HexDigit(n) == IF n < 10 THEN Ord("0") + n ELSE Ord("a") + (n - 10)

\* The text json.dumps writes for one character of a str (ensure_ascii=True).
JsonEscape(c) ==
  CASE c = Ord("\"") -> T(<<"\\", "\"">>)
    [] c = Ord("\\") -> T(<<"\\", "\\">>)
    [] c = 10 -> T(<<"\\", "n">>)
    [] c = 13 -> T(<<"\\", "r">>)
    [] c = 9  -> T(<<"\\", "t">>)
    [] c = 8  -> T(<<"\\", "b">>)
    [] c = 12 -> T(<<"\\", "f">>)
    [] c \in 32..126 -> <<c>>
    [] OTHER -> T(<<"\\", "u">>) \o <<HexDigit(c \div 4096), HexDigit((c \div 256) % 16),
                                      HexDigit((c \div 16) % 16), HexDigit(c % 16)>>

RECURSIVE JsonEscapeAll(_)
JsonEscapeAll(s) == IF s = <<>> THEN <<>> ELSE JsonEscape(Head(s)) \o JsonEscapeAll(Tail(s))

\* json.dumps of one value.
JsonDumpValue(v) ==
  CASE v.t = "str"  -> <<Ord("\"")>> \o JsonEscapeAll(v.s) \o <<Ord("\"")>>
    [] v.t = "int"  -> IntToStr(v.n)
    [] v.t = "bool" -> IF v.n = 1 THEN T(<<"t", "r", "u", "e">>) ELSE T(<<"f", "a", "l", "s", "e">>)
    [] OTHER        -> T(<<"n", "u", "l", "l">>)

\* json.dumps of a dict given as the sequence of its (key, value) items in
\* insertion order: {"k": v, "k2": v2}.
RECURSIVE JsonDumpItems(_)
JsonDumpItems(items) ==
  IF items = <<>> THEN <<>>
  ELSE JsonDumpValue(PyStr(Head(items).key)) \o T(<<":", " ">>) \o JsonDumpValue(Head(items).value)
       \o (IF Len(items) > 1 THEN T(<<",", " ">>) ELSE <<>>) \o JsonDumpItems(Tail(items))

json_dumps(items) == <<Ord("{")>> \o JsonDumpItems(items) \o <<Ord("}")>>


(***************************************************************************)
(* ProtocolParser: the decoders                                            *)
(***************************************************************************)

\* The dict a decoder returns from its `except Exception as e` handler:
\* {'error': f'<who>解析失败: {str(e)}'}.  The text of the exception itself is
\* left out of the message.
ParseFailed(who) == [error |-> PyStr(who \o <<35299, 26512, 22833, 36133>> \o T(<<":", " ">>))]

\* {'error': '<who>格式错误'}
FormatError(who) == [error |-> PyStr(who \o <<26684, 24335, 38169, 35823>>)]

Shadowsocks == T(<<"S", "h", "a", "d", "o", "w", "s", "o", "c", "k", "s">>)

\* What the two branches of _parse_shadowsocks extract: [ok, short, host, port,
\* method, password]; ok is FALSE when the branch raises, short is TRUE when the
\* legacy branch finds fewer than four fields.
SsRaised ==
  [ok |-> FALSE, short |-> FALSE, host |-> <<>>, port |-> <<>>, method |-> <<>>, password |-> <<>>]

\* method, password = method_password.split(':'); host, port = host_port.split(':')
SsSip002Pairs(mp, hp) ==
  IF Len(mp) # 2 \/ Len(hp) # 2 THEN SsRaised
  ELSE [ok |-> TRUE, short |-> FALSE, host |-> hp[1], port |-> hp[2],
        method |-> mp[1], password |-> mp[2]]

\* method_password, host_port = decoded.split('@')
SsSip002Halves(halves) ==
  IF Len(halves) # 2 THEN SsRaised
  ELSE SsSip002Pairs(Split(halves[1], Ord(":")), Split(halves[2], Ord(":")))

SsSip002Decoded(decoded) ==
  IF ~decoded.ok THEN SsRaised ELSE SsSip002Halves(Split(decoded.s, Ord("@")))

SsSip002Fields(enc) == SsSip002Decoded(b64decode_utf8(enc))

SsLegacyParts(parts) ==
  IF Len(parts) >= 4
  THEN [ok |-> TRUE, short |-> FALSE, host |-> parts[1], port |-> parts[2],
        method |-> parts[3], password |-> parts[4]]
  ELSE [ok |-> TRUE, short |-> TRUE, host |-> <<>>, port |-> <<>>,
        method |-> <<>>, password |-> <<>>]

SsLegacyFields(enc) == SsLegacyParts(Split(enc, Ord(":")))

\* The test that selects the SIP002 branch: it looks for '@' in the text after
\* "ss://", before any base64 decoding.
SsIsSip002(enc) == Contains(enc, Ord("@"))

SsRecord(f, num) ==
  IF ~num.ok THEN ParseFailed(Shadowsocks)
  ELSE [type     |-> PyStr(T(<<"s", "s">>)),
        name     |-> PyStr(T(<<"S", "S", "-">>) \o f.host \o <<Ord(":")>> \o f.port),
        server   |-> PyStr(f.host),
        port     |-> PyInt(num.n),
        method   |-> PyStr(f.method),
        password |-> PyStr(f.password)]

SsFields(f) ==
  IF ~f.ok THEN ParseFailed(Shadowsocks)
  ELSE IF f.short THEN FormatError(Shadowsocks)
  ELSE SsRecord(f, ParseInt(f.port))

SsEncoded(enc) ==
  SsFields(IF SsIsSip002(enc) THEN SsSip002Fields(enc) ELSE SsLegacyFields(enc))

_parse_shadowsocks(lnk) == SsEncoded(SliceFrom(lnk, 5))

VMess == T(<<"V", "M", "e", "s", "s">>)

K_ps   == T(<<"p", "s">>)
K_add  == T(<<"a", "d", "d">>)
K_port == T(<<"p", "o", "r", "t">>)
K_id   == T(<<"i", "d">>)
K_aid  == T(<<"a", "i", "d">>)
K_scy  == T(<<"s", "c", "y">>)
K_net  == T(<<"n", "e", "t">>)
K_path == T(<<"p", "a", "t", "h">>)
K_host == T(<<"h", "o", "s", "t">>)
K_tls  == T(<<"t", "l", "s">>)
K_sni  == T(<<"s", "n", "i">>)
K_type == T(<<"t", "y", "p", "e">>)
K_v    == T(<<"v">>)

\* int(v) of a loaded JSON value: a str is parsed, None raises TypeError.
IntOf(v) ==
  CASE v.t = "str"  -> ParseInt(v.s)
    [] v.t = "None" -> [ok |-> FALSE, n |-> 0]
    [] OTHER        -> [ok |-> TRUE, n |-> v.n]

\* A decoder that always synthesizes the name and never reads ps, which
\* _parse_vmess does not do.
VmessName_IgnorePs(config) ==
  PyStr(VMess \o <<Ord("-")>> \o Format(JGet(config, K_add, PyNone)) \o <<Ord(":")>>
        \o Format(JGet(config, K_port, PyNone)))

\* config.get('ps', f'VMess-{config.get("add")}:{config.get("port")}'): the
\* default is used only when the key is missing.
VmessName(config) ==
  JGet(config, K_ps,
       PyStr(VMess \o <<Ord("-")>> \o Format(JGet(config, K_add, PyNone)) \o <<Ord(":")>>
             \o Format(JGet(config, K_port, PyNone))))

VmessRecord(config, num) ==
  IF ~num.ok THEN ParseFailed(VMess)
  ELSE [type     |-> PyStr(T(<<"v", "m", "e", "s", "s">>)),
        name     |-> VmessName(config),
        server   |-> JGet(config, K_add, PyNone),
        port     |-> PyInt(num.n),
        uuid     |-> JGet(config, K_id, PyNone),
        alterId  |-> JGet(config, K_aid, PyInt(0)),
        security |-> JGet(config, K_scy, PyStr(T(<<"a", "u", "t", "o">>))),
        network  |-> JGet(config, K_net, PyStr(T(<<"t", "c", "p">>))),
        wsPath   |-> JGet(config, K_path, PyStr(<<>>)),
        wsHost   |-> JGet(config, K_host, PyStr(<<>>)),
        tls      |-> JGet(config, K_tls, PyStr(T(<<"n", "o", "n", "e">>))),
        sni      |-> JGet(config, K_sni, PyStr(<<>>))]

\* config = json.loads(decoded); config.get raises on anything but a dict.
VmessLoaded(loaded) ==
  IF ~loaded.ok \/ ~loaded.isObject THEN ParseFailed(VMess)
  ELSE VmessRecord(loaded.obj, IntOf(JGet(loaded.obj, K_port, PyNone)))

VmessDecoded(decoded) ==
  IF ~decoded.ok THEN ParseFailed(VMess) ELSE VmessLoaded(json_loads(decoded.s))

_parse_vmess(lnk) == VmessDecoded(b64decode_utf8(SliceFrom(lnk, 8)))

\* The attributes a decoder reads from the result of urlparse.
Attributes(parsed) ==
  [fragment |-> parsed.fragment,
   username |-> username(parsed.netloc),
   password |-> password(parsed.netloc),
   hostname |-> hostname(parsed.netloc),
   port     |-> port(parsed.netloc)]

\* parsed.fragment or f'<Tag>-{parsed.hostname}:{parsed.port}'
UrlName(parsed, tag) ==
  IF parsed.fragment # <<>> THEN PyStr(parsed.fragment)
  ELSE PyStr(tag \o <<Ord("-")>> \o Format(parsed.hostname) \o <<Ord(":")>>
             \o Format(parsed.port.v))

VLESS == T(<<"V", "L", "E", "S", "S">>)

VlessRecord(parsed, query) ==
  IF ~parsed.port.ok THEN ParseFailed(VLESS)
  ELSE [type     |-> PyStr(T(<<"v", "l", "e", "s", "s">>)),
        name     |-> UrlName(parsed, VLESS),
        server   |-> parsed.hostname,
        port     |-> parsed.port.v,
        uuid     |-> parsed.username,
        network  |-> PyStr(QueryFirst(query, K_type, T(<<"t", "c", "p">>))),
        security |-> PyStr(QueryFirst(query, T(<<"s", "e", "c", "u", "r", "i", "t", "y">>),
                                      T(<<"n", "o", "n", "e">>))),
        path     |-> PyStr(QueryFirst(query, K_path, <<>>)),
        host     |-> PyStr(QueryFirst(query, K_host, <<>>)),
        sni      |-> PyStr(QueryFirst(query, K_sni, <<>>))]

VlessParsed(parsed) ==
  IF ~parsed.ok THEN ParseFailed(VLESS) ELSE VlessRecord(Attributes(parsed), parse_qs(parsed.query))

_parse_vless(lnk) == VlessParsed(urlparse(lnk))

Trojan == T(<<"T", "r", "o", "j", "a", "n">>)

TrojanRecord(parsed, query) ==
  IF ~parsed.port.ok THEN ParseFailed(Trojan)
  ELSE [type     |-> PyStr(T(<<"t", "r", "o", "j", "a", "n">>)),
        name     |-> UrlName(parsed, Trojan),
        server   |-> parsed.hostname,
        port     |-> parsed.port.v,
        password |-> parsed.username,
        sni      |-> PyStr(QueryFirst(query, K_sni, <<>>)),
        network  |-> PyStr(QueryFirst(query, K_type, T(<<"t", "c", "p">>)))]

TrojanParsed(parsed) ==
  IF ~parsed.ok THEN ParseFailed(Trojan) ELSE TrojanRecord(Attributes(parsed), parse_qs(parsed.query))

_parse_trojan(lnk) == TrojanParsed(urlparse(lnk))

ShadowsocksR == Shadowsocks \o T(<<"R">>)

K_remarks    == T(<<"r", "e", "m", "a", "r", "k", "s">>)
K_obfsparam  == T(<<"o", "b", "f", "s", "p", "a", "r", "a", "m">>)
K_protoparam == T(<<"p", "r", "o", "t", "o", "p", "a", "r", "a", "m">>)

\* A decoder that takes a query parameter as it stands, without base64-decoding
\* it, which _parse_shadowsocksr does not do.
SsrParam_Undecoded(params, key, default) ==
  [ok |-> TRUE, s |-> QueryFirst(params, key, default)]

\* base64.b64decode(params.get(key, [''])[0]).decode('utf-8') if params.get(key)
\* else default
SsrParam(params, key, default) ==
  IF \E i \in DOMAIN params : params[i].name = key
  THEN b64decode_utf8(QueryFirst(params, key, <<>>))
  ELSE [ok |-> TRUE, s |-> default]

SsrRecord(parts, pw, nm, op, pp, num) ==
  IF ~pw.ok \/ ~nm.ok \/ ~num.ok \/ ~op.ok \/ ~pp.ok THEN ParseFailed(ShadowsocksR)
  ELSE [type       |-> PyStr(T(<<"s", "s", "r">>)),
        name       |-> PyStr(nm.s),
        server     |-> PyStr(parts[1]),
        port       |-> PyInt(num.n),
        protocol   |-> PyStr(parts[3]),
        method     |-> PyStr(parts[4]),
        obfs       |-> PyStr(parts[5]),
        password   |-> PyStr(pw.s),
        obfsparam  |-> PyStr(op.s),
        protoparam |-> PyStr(pp.s)]

\* parts = config_part.split(':'), six of which are needed.
SsrParts(parts, params) ==
  IF Len(parts) < 6 THEN FormatError(ShadowsocksR)
  ELSE SsrRecord(parts,
                 b64decode_utf8(parts[6]),
                 SsrParam(params, K_remarks,
                          T(<<"S", "S", "R", "-">>) \o parts[1] \o <<Ord(":")>> \o parts[2]),
                 SsrParam(params, K_obfsparam, <<>>),
                 SsrParam(params, K_protoparam, <<>>),
                 ParseInt(parts[2]))

\* config_part, params_part = decoded.split('?', 1) when there is a '?'.
SsrHalves(halves) ==
  SsrParts(Split(halves.head, Ord(":")),
           IF halves.found THEN parse_qs(halves.tail) ELSE <<>>)

SsrDecoded(decoded) ==
  IF ~decoded.ok THEN ParseFailed(ShadowsocksR) ELSE SsrHalves(Partition(decoded.s, Ord("?")))

_parse_shadowsocksr(lnk) == SsrDecoded(b64decode_utf8(SliceFrom(lnk, 6)))

Hysteria == T(<<"H", "y", "s", "t", "e", "r", "i", "a">>)

HysteriaRecord(parsed, query, up, down) ==
  IF ~parsed.port.ok \/ ~up.ok \/ ~down.ok THEN ParseFailed(Hysteria)
  ELSE [type     |-> PyStr(T(<<"h", "y", "s", "t", "e", "r", "i", "a">>)),
        name     |-> UrlName(parsed, Hysteria),
        server   |-> parsed.hostname,
        port     |-> parsed.port.v,
        protocol |-> PyStr(QueryFirst(query, T(<<"p", "r", "o", "t", "o", "c", "o", "l">>), T(<<"u", "d", "p">>))),
        auth     |-> PyStr(QueryFirst(query, T(<<"a", "u", "t", "h">>), <<>>)),
        peer     |-> PyStr(QueryFirst(query, T(<<"p", "e", "e", "r">>), <<>>)),
        insecure |-> PyBool(QueryFirst(query, T(<<"i", "n", "s", "e", "c", "u", "r", "e">>), T(<<"0">>)) = T(<<"1">>)),
        upmbps   |-> PyInt(up.n),
        downmbps |-> PyInt(down.n),
        alpn     |-> PyStr(QueryFirst(query, T(<<"a", "l", "p", "n">>), T(<<"h", "3">>)))]

HysteriaQuery(parsed, query) ==
  HysteriaRecord(parsed, query,
                 ParseInt(QueryFirst(query, T(<<"u", "p", "m", "b", "p", "s">>), T(<<"1", "0", "0">>))),
                 ParseInt(QueryFirst(query, T(<<"d", "o", "w", "n", "m", "b", "p", "s">>), T(<<"1", "0", "0">>))))

HysteriaParsed(parsed) ==
  IF ~parsed.ok THEN ParseFailed(Hysteria)
  ELSE HysteriaQuery(Attributes(parsed), parse_qs(parsed.query))

_parse_hysteria(lnk) == HysteriaParsed(urlparse(lnk))

TUIC == T(<<"T", "U", "I", "C">>)

TuicSplit(uuid_password) ==
  [uuid |-> uuid_password[1],
   password |-> IF Len(uuid_password) > 1 THEN uuid_password[2] ELSE <<>>]

\* parsed.username.split(':'), then [0] and ([1] if there is one else '').
TuicCredential(user) == TuicSplit(Split(user.s, Ord(":")))

TuicFields(parsed, query, cred) ==
  [type     |-> PyStr(T(<<"t", "u", "i", "c">>)),
   name     |-> UrlName(parsed, TUIC),
   server   |-> parsed.hostname,
   port     |-> parsed.port.v,
   uuid     |-> PyStr(cred.uuid),
   password |-> PyStr(cred.password),
   congestion_control |-> PyStr(QueryFirst(query,
       T(<<"c", "o", "n", "g", "e", "s", "t", "i", "o", "n", "_", "c", "o", "n", "t", "r", "o", "l">>),
       T(<<"b", "b", "r">>))),
   udp_relay_mode |-> PyStr(QueryFirst(query,
       T(<<"u", "d", "p", "_", "r", "e", "l", "a", "y", "_", "m", "o", "d", "e">>),
       T(<<"n", "a", "t", "i", "v", "e">>))),
   alpn     |-> PyStr(QueryFirst(query, T(<<"a", "l", "p", "n">>), T(<<"h", "3">>))),
   allow_insecure |-> PyBool(QueryFirst(query,
       T(<<"a", "l", "l", "o", "w", "_", "i", "n", "s", "e", "c", "u", "r", "e">>),
       T(<<"0">>)) = T(<<"1">>))]

\* parsed.username is None for a link without user-info, and None has no split.
TuicRecord(parsed, query) ==
  IF parsed.username = PyNone \/ ~parsed.port.ok THEN ParseFailed(TUIC)
  ELSE TuicFields(parsed, query, TuicCredential(parsed.username))

TuicParsed(parsed) ==
  IF ~parsed.ok THEN ParseFailed(TUIC) ELSE TuicRecord(Attributes(parsed), parse_qs(parsed.query))

_parse_tuic(lnk) == TuicParsed(urlparse(lnk))

SOCKS5 == T(<<"S", "O", "C", "K", "S", "5">>)

Socks5Record(parsed) ==
  IF ~parsed.port.ok THEN ParseFailed(SOCKS5)
  ELSE [type     |-> PyStr(T(<<"s", "o", "c", "k", "s", "5">>)),
        name     |-> UrlName(parsed, SOCKS5),
        server   |-> parsed.hostname,
        port     |-> parsed.port.v,
        username |-> parsed.username,
        password |-> parsed.password]

Socks5Parsed(parsed) ==
  IF ~parsed.ok THEN ParseFailed(SOCKS5) ELSE Socks5Record(Attributes(parsed))

_parse_socks5(lnk) == Socks5Parsed(urlparse(lnk))

HTTP == T(<<"H", "T", "T", "P">>)

HttpRecord(parsed) ==
  IF ~parsed.port.ok THEN ParseFailed(HTTP)
  ELSE [type     |-> PyStr(T(<<"h", "t", "t", "p">>)),
        name     |-> UrlName(parsed, HTTP),
        server   |-> parsed.hostname,
        port     |-> parsed.port.v,
        username |-> parsed.username,
        password |-> parsed.password]

HttpParsed(parsed) ==
  IF ~parsed.ok THEN ParseFailed(HTTP) ELSE HttpRecord(Attributes(parsed))

_parse_http(lnk) == HttpParsed(urlparse(lnk))

Snell == T(<<"S", "n", "e", "l", "l">>)

SnellRecord(parsed, query) ==
  IF ~parsed.port.ok THEN ParseFailed(Snell)
  ELSE [type     |-> PyStr(T(<<"s", "n", "e", "l", "l">>)),
        name     |-> UrlName(parsed, Snell),
        server   |-> parsed.hostname,
        port     |-> parsed.port.v,
        password |-> parsed.username,
        obfs     |-> PyStr(QueryFirst(query, T(<<"o", "b", "f", "s">>), T(<<"n", "o", "n", "e">>)))]
       @@ ("obfs-host" :> PyStr(QueryFirst(query, T(<<"o", "b", "f", "s", "-", "h", "o", "s", "t">>), <<>>)))

SnellParsed(parsed) ==
  IF ~parsed.ok THEN ParseFailed(Snell) ELSE SnellRecord(Attributes(parsed), parse_qs(parsed.query))

_parse_snell(lnk) == SnellParsed(urlparse(lnk))

(***************************************************************************)
(* ProtocolParser.parse_link                                               *)
(***************************************************************************)

\* The scheme prefixes of the if/elif chain, in its order, each with the
\* decoder it calls.
Schemes ==
  << [prefix |-> T(<<"s", "s", ":", "/", "/">>),                               decoder |-> "_parse_shadowsocks"],
     [prefix |-> T(<<"v", "m", "e", "s", "s", ":", "/", "/">>),                decoder |-> "_parse_vmess"],
     [prefix |-> T(<<"v", "l", "e", "s", "s", ":", "/", "/">>),                decoder |-> "_parse_vless"],
     [prefix |-> T(<<"t", "r", "o", "j", "a", "n", ":", "/", "/">>),           decoder |-> "_parse_trojan"],
     [prefix |-> T(<<"s", "s", "r", ":", "/", "/">>),                          decoder |-> "_parse_shadowsocksr"],
     [prefix |-> T(<<"h", "y", "s", "t", "e", "r", "i", "a", ":", "/", "/">>), decoder |-> "_parse_hysteria"],
     [prefix |-> T(<<"t", "u", "i", "c", ":", "/", "/">>),                     decoder |-> "_parse_tuic"],
     [prefix |-> T(<<"s", "n", "e", "l", "l", ":", "/", "/">>),                decoder |-> "_parse_snell"],
     [prefix |-> T(<<"s", "o", "c", "k", "s", "5", ":", "/", "/">>),           decoder |-> "_parse_socks5"],
     [prefix |-> T(<<"h", "t", "t", "p", ":", "/", "/">>),                     decoder |-> "_parse_http"] >>

\* link.strip(), then link.split('#')[0] when it holds a '#'.
Prepare(lnk) == Partition(Strip(lnk), Ord("#")).head

\* A dispatcher that compares the prefix without regard to case, which
\* parse_link does not do.
Matches_IgnoreCase(lnk, prefix) == StartsWith(Lower(lnk), prefix)

\* Whether a prepared link matches a scheme prefix: link.startswith(prefix).
Matches(lnk, prefix) == StartsWith(lnk, prefix)

\* The decoder the if/elif chain calls for a prepared link: that of the first
\* prefix it starts with, "None" when it starts with none.
Dispatch(lnk) ==
  IF \A i \in DOMAIN Schemes : ~Matches(lnk, Schemes[i].prefix) THEN "None"
  ELSE Schemes[CHOOSE i \in DOMAIN Schemes :
                 /\ Matches(lnk, Schemes[i].prefix)
                 /\ \A j \in 1..(i - 1) : ~Matches(lnk, Schemes[j].prefix)].decoder

Decode(decoder, lnk) ==
  CASE decoder = "_parse_shadowsocks"  -> _parse_shadowsocks(lnk)
    [] decoder = "_parse_vmess"        -> _parse_vmess(lnk)
    [] decoder = "_parse_vless"        -> _parse_vless(lnk)
    [] decoder = "_parse_trojan"       -> _parse_trojan(lnk)
    [] decoder = "_parse_shadowsocksr" -> _parse_shadowsocksr(lnk)
    [] decoder = "_parse_hysteria"     -> _parse_hysteria(lnk)
    [] decoder = "_parse_tuic"         -> _parse_tuic(lnk)
    [] decoder = "_parse_snell"        -> _parse_snell(lnk)
    [] decoder = "_parse_socks5"       -> _parse_socks5(lnk)
    [] OTHER                           -> _parse_http(lnk)

Dispatched(decoder, prepared) ==
  IF decoder = "None" THEN [isNone |-> TRUE, decoder |-> "None", dict |-> <<>>]
  ELSE [isNone |-> FALSE, decoder |-> decoder, dict |-> Decode(decoder, prepared)]

Prepared(prepared) == Dispatched(Dispatch(prepared), prepared)

\* parse_link(link): [isNone, decoder, dict].  isNone is Python's None; dict is
\* the dict returned otherwise, by the decoder named in `decoder`.  Every
\* decoder catches its own exceptions, so the handler of parse_link itself,
\* the only place that adds a 'raw' key, is never entered.
parse_link(lnk) == Prepared(Prepare(lnk))


(***************************************************************************)
(* ProtocolParser: the encoders                                            *)
(***************************************************************************)

B64OfEncoded(raw) == [ok |-> raw.ok, s |-> IF raw.ok THEN b64encode(raw.bytes) ELSE <<>>]

\* base64.b64encode(text.encode()).decode(); ok is FALSE when encode raises.
b64encode_utf8(text) == B64OfEncoded(utf8_encode(text))

SsLink(enc, name) ==
  IF ~enc.ok THEN <<>>
  ELSE T(<<"s", "s", ":", "/", "/">>) \o enc.s \o <<Ord("#")>> \o Format(name)

_generate_shadowsocks_link(node) ==
  SsLink(b64encode_utf8(
           Format(Get(node, "method", PyStr(T(<<"a", "e", "s", "-", "2", "5", "6", "-", "g", "c", "m">>))))
           \o <<Ord(":")>> \o Format(Get(node, "password", PyStr(<<>>)))
           \o <<Ord("@")>> \o Format(Get(node, "server", PyStr(<<>>)))
           \o <<Ord(":")>> \o Format(Get(node, "port", PyInt(443)))),
         Get(node, "name", PyStr(<<>>)))

VmessLinkOf(enc) == IF ~enc.ok THEN <<>> ELSE T(<<"v", "m", "e", "s", "s", ":", "/", "/">>) \o enc.s

_generate_vmess_link(node) ==
  VmessLinkOf(b64encode_utf8(json_dumps(
    << [key |-> K_v,    value |-> PyStr(T(<<"2">>))],
       [key |-> K_ps,   value |-> Get(node, "name", PyStr(<<>>))],
       [key |-> K_add,  value |-> Get(node, "server", PyStr(<<>>))],
       [key |-> K_port, value |-> Get(node, "port", PyInt(443))],
       [key |-> K_id,   value |-> Get(node, "uuid", PyStr(<<>>))],
       [key |-> K_aid,  value |-> Get(node, "alterId", PyInt(0))],
       [key |-> K_scy,  value |-> Get(node, "security", PyStr(T(<<"a", "u", "t", "o">>)))],
       [key |-> K_net,  value |-> Get(node, "network", PyStr(T(<<"t", "c", "p">>)))],
       [key |-> K_type, value |-> PyStr(T(<<"n", "o", "n", "e">>))],
       [key |-> K_host, value |-> Get(node, "wsHost", PyStr(<<>>))],
       [key |-> K_path, value |-> Get(node, "wsPath", PyStr(<<>>))],
       [key |-> K_tls,  value |-> Get(node, "tls", PyStr(T(<<"n", "o", "n", "e">>)))],
       [key |-> K_sni,  value |-> Get(node, "sni", PyStr(<<>>))] >>)))

\* The "key=value" items of a query, joined with '&'.
RECURSIVE JoinAmp(_)
JoinAmp(params) ==
  IF params = <<>> THEN <<>>
  ELSE Head(params) \o (IF Len(params) > 1 THEN <<Ord("&")>> ELSE <<>>) \o JoinAmp(Tail(params))

\* An encoder that emits every non-empty parameter, its default included.
ParamOf_KeepDefault(key, v, skip) ==
  IF Truthy(v) THEN <<key \o <<Ord("=")>> \o Format(v)>> ELSE <<>>

ParamOf(key, v, skip) ==
  IF Truthy(v) /\ v # PyStr(skip) THEN <<key \o <<Ord("=")>> \o Format(v)>> ELSE <<>>

\* params.append(f"{key}={node.get(field)}") under `if node.get(field)`, with
\* the extra test `!= skip` where the code has one (skip is <<>> for none).
Param(node, field, key, skip) == ParamOf(key, Get(node, field, PyNone), skip)

\* url, then "?query" when there is a query, then "#name" when name is truthy.
UrlLink(base, params, name) ==
  base \o (IF params # <<>> THEN <<Ord("?")>> \o JoinAmp(params) ELSE <<>>)
       \o (IF Truthy(name) THEN <<Ord("#")>> \o Format(name) ELSE <<>>)

_generate_vless_link(node) ==
  UrlLink(T(<<"v", "l", "e", "s", "s", ":", "/", "/">>) \o Format(Get(node, "uuid", PyStr(<<>>)))
            \o <<Ord("@")>> \o Format(Get(node, "server", PyStr(<<>>)))
            \o <<Ord(":")>> \o Format(Get(node, "port", PyInt(443))),
          Param(node, "network", K_type, T(<<"t", "c", "p">>))
            \o Param(node, "security", T(<<"s", "e", "c", "u", "r", "i", "t", "y">>), T(<<"n", "o", "n", "e">>))
            \o Param(node, "path", K_path, <<>>)
            \o Param(node, "host", K_host, <<>>)
            \o Param(node, "sni", K_sni, <<>>),
          Get(node, "name", PyStr(<<>>)))

_generate_trojan_link(node) ==
  UrlLink(T(<<"t", "r", "o", "j", "a", "n", ":", "/", "/">>) \o Format(Get(node, "password", PyStr(<<>>)))
            \o <<Ord("@")>> \o Format(Get(node, "server", PyStr(<<>>)))
            \o <<Ord(":")>> \o Format(Get(node, "port", PyInt(443))),
          Param(node, "sni", K_sni, <<>>) \o Param(node, "network", K_type, T(<<"t", "c", "p">>)),
          Get(node, "name", PyStr(<<>>)))

\* A dispatcher that encodes every record type but VMess as Shadowsocks.
Generated_AnyType(node, node_type) ==
  IF node_type = PyStr(T(<<"v", "m", "e", "s", "s">>)) THEN _generate_vmess_link(node)
  ELSE _generate_shadowsocks_link(node)

Generated(node, node_type) ==
  CASE node_type = PyStr(T(<<"s", "s">>))                     -> _generate_shadowsocks_link(node)
    [] node_type = PyStr(T(<<"v", "m", "e", "s", "s">>))      -> _generate_vmess_link(node)
    [] node_type = PyStr(T(<<"v", "l", "e", "s", "s">>))      -> _generate_vless_link(node)
    [] node_type = PyStr(T(<<"t", "r", "o", "j", "a", "n">>)) -> _generate_trojan_link(node)
    [] OTHER -> <<>>

\* generate_link(node): the link, '' for a type without an encoder.
generate_link(node) == Generated(node, Get(node, "type", PyStr(<<>>)))


(***************************************************************************)
(* The inputs                                                              *)
(***************************************************************************)

\* The most whitespace characters put before and after a raw link.
MaxPad == 1
\* The most colon-separated fields of a legacy Shadowsocks body.
MaxLegacyFields == 5
\* The most colon-separated fields of a ShadowsocksR body.
MaxSsrFields == 7

RECURSIVE Join(_, _)
Join(fields, sep) ==
  IF fields = <<>> THEN <<>>
  ELSE Head(fields) \o (IF Len(fields) > 1 THEN <<sep>> ELSE <<>>) \o Join(Tail(fields), sep)

Repeat(c, k) == [i \in 1..k |-> c]

S_example == T(<<"e", "x", "a", "m", "p", "l", "e", ".", "c", "o", "m">>)
S_gcm     == T(<<"a", "e", "s", "-", "2", "5", "6", "-", "g", "c", "m">>)
S_hunter2 == T(<<"h", "u", "n", "t", "e", "r", "2">>)
S_MyNode  == T(<<"M", "y", "N", "o", "d", "e">>)
S_8388    == T(<<"8", "3", "8", "8">>)
S_443     == T(<<"4", "4", "3">>)

\* Prefixes that are no scheme of the parser, though close to one.
NearMisses ==
  { <<>>, T(<<"s", "s", "s", ":", "/", "/">>), T(<<"S", "S", ":", "/", "/">>),
    T(<<"s", "s", ":", "/">>), T(<<"u", "n", "k", "n", "o", "w", "n", ":", "/", "/">>),
    T(<<"h", "t", "t", "p", "s", ":", "/", "/">>), T(<<"V", "m", "e", "s", "s", ":", "/", "/">>),
    T(<<"#", "s", "s", ":", "/", "/">>), T(<<"x", "v", "l", "e", "s", "s", ":", "/", "/">>),
    T(<<"s", "o", "c", "k", "s", ":", "/", "/">>) }

RawPrefixes == {Schemes[i].prefix : i \in DOMAIN Schemes} \cup NearMisses

RawBodies ==
  { <<>>, T(<<"x">>), T(<<"!", "!", "!">>),
    T(<<"h", ":", "1", ":", "m", ":", "p">>),
    T(<<"u", "@", "h", ":", "1">>),
    T(<<"u", "@", "h", ":", "x", "?", "t", "y", "p", "e", "=", "w", "s">>),
    b64encode(T(<<"{", "\"", "a", "d", "d", "\"", ":", "\"", "h", "\"", "}">>)),
    b64encode(T(<<"h", ":", "1", ":", "o", ":", "m", ":", "p", ":", "c", "H", "c", "=">>)) }

RawFragments == { <<>>, T(<<"#", "n">>) }

RawInputs ==
  { [kind |-> "raw",
     text |-> Repeat(Ord(" "), lead) \o pre \o body \o frag \o Repeat(Ord("\n"), trail)] :
    lead \in 0..MaxPad, trail \in 0..MaxPad, pre \in RawPrefixes, body \in RawBodies,
    frag \in RawFragments }

\* A SIP002 link: "ss://" + base64("method:password@host:port") + "#" + label.
Sip002Inputs ==
  { [kind |-> "sip002", method |-> m, password |-> pw, host |-> h, port |-> pt, label |-> lb] :
    m \in {S_gcm, T(<<"m">>)}, pw \in {S_hunter2, T(<<"p">>)},
    h \in {S_example, T(<<"h">>)}, pt \in {S_8388, T(<<"1">>)}, lb \in {S_MyNode, T(<<"n">>)} }

Sip002Link(i) ==
  T(<<"s", "s", ":", "/", "/">>)
  \o b64encode(i.method \o <<Ord(":")>> \o i.password \o <<Ord("@")>> \o i.host \o <<Ord(":")>> \o i.port)
  \o <<Ord("#")>> \o i.label

\* A legacy link: "ss://" + the fields joined with ':'.
LegacyInputs ==
  { [kind |-> "legacy",
     fields |-> SubSeq(<<h, pt, S_gcm, pw, T(<<"x">>)>> \o Repeat(T(<<"y">>), MaxLegacyFields), 1, n)] :
    h \in {S_example, T(<<"h">>)}, pt \in {S_8388, T(<<"1">>)},
    pw \in {S_hunter2, T(<<"p", "@", "s", "s">>)}, n \in 1..MaxLegacyFields }

LegacyLink(i) == T(<<"s", "s", ":", "/", "/">>) \o Join(i.fields, Ord(":"))


\* A VMess link: "vmess://" + base64 of a JSON object that always holds add,
\* port and id, and holds each of ps, aid, scy, net, tls only when `present`
\* names it.
VmessOptional == {"ps", "aid", "scy", "net", "tls"}

VmessInputs ==
  { [kind |-> "vmess", present |-> pr, ps |-> nm, port |-> pt] :
    pr \in SUBSET VmessOptional, nm \in {T(<<"n">>), <<>>},
    pt \in {PyInt(443), PyStr(S_443)} }

VmessItems(i) ==
  LET opt(k, key, v) == IF k \in i.present THEN <<[key |-> key, value |-> v]>> ELSE <<>>
  IN  opt("ps", K_ps, PyStr(i.ps))
      \o << [key |-> K_add, value |-> PyStr(S_example)],
            [key |-> K_port, value |-> i.port],
            [key |-> K_id, value |-> PyStr(T(<<"u", "1">>))] >>
      \o opt("aid", K_aid, PyInt(2))
      \o opt("scy", K_scy, PyStr(T(<<"z", "e", "r", "o">>)))
      \o opt("net", K_net, PyStr(T(<<"w", "s">>)))
      \o opt("tls", K_tls, PyStr(T(<<"t", "l", "s">>)))

VmessLink(i) == T(<<"v", "m", "e", "s", "s", ":", "/", "/">>) \o b64encode(json_dumps(VmessItems(i)))

\* A ShadowsocksR link: "ssr://" + base64 of the first `n` of the fields
\* host:port:protocol:method:obfs:base64(password):extra, followed by
\* "?remarks=" + base64(remarks) when there are remarks.  `remarks` is a tuple
\* of no or one str.  In the query a '+' of the base64 text is written %2B, as a
\* query string writes a literal plus sign.
SsrInputs ==
  { [kind |-> "ssr", n |-> n, host |-> T(<<"h">>), port |-> pt, password |-> pw, remarks |-> rm] :
    n \in 4..MaxSsrFields, pt \in {S_8388, T(<<"1">>)},
    pw \in {T(<<"p", "w">>), T(<<">", ">", ">">>)},
    rm \in {<<>>, << <<>> >>, <<T(<<"n", "m">>)>>, <<T(<<">", ">", ">">>)>>, <<S_MyNode>>} }

RECURSIVE QuotePlus(_)
QuotePlus(s) ==
  IF s = <<>> THEN <<>>
  ELSE (IF Head(s) = Ord("+") THEN T(<<"%", "2", "B">>) ELSE <<Head(s)>>) \o QuotePlus(Tail(s))

SsrBody(i) ==
  Join(SubSeq(<<i.host, i.port, T(<<"o", "r", "i", "g", "i", "n">>), T(<<"a", "e", "s">>),
                T(<<"p", "l", "a", "i", "n">>), b64encode(i.password)>>
              \o Repeat(T(<<"x">>), MaxSsrFields), 1, i.n), Ord(":"))
  \o (IF i.remarks = <<>> THEN <<>>
      ELSE T(<<"?", "r", "e", "m", "a", "r", "k", "s", "=">>) \o QuotePlus(b64encode(i.remarks[1])))

SsrLink(i) == T(<<"s", "s", "r", ":", "/", "/">>) \o b64encode(SsrBody(i))

\* A link in URI form: scheme://[credential@]host[:port][?query][#fragment];
\* credential, port, query and fragment are tuples of no or one str.
UrlSchemes ==
  { T(<<"v", "l", "e", "s", "s">>), T(<<"t", "r", "o", "j", "a", "n">>), T(<<"t", "u", "i", "c">>),
    T(<<"h", "y", "s", "t", "e", "r", "i", "a">>), T(<<"s", "n", "e", "l", "l">>),
    T(<<"s", "o", "c", "k", "s", "5">>), T(<<"h", "t", "t", "p">>) }

UrlQueries ==
  { <<>>,
    <<T(<<"t", "y", "p", "e", "=", "w", "s", "&", "s", "n", "i", "=", "s">>)>>,
    <<T(<<"a", "l", "l", "o", "w", "_", "i", "n", "s", "e", "c", "u", "r", "e", "=", "1">>)>>,
    <<T(<<"a", "l", "l", "o", "w", "_", "i", "n", "s", "e", "c", "u", "r", "e", "=", "%", "3", "1",
          "&", "a", "l", "p", "n", "=", "h", "2">>)>>,
    <<T(<<"a", "l", "l", "o", "w", "_", "i", "n", "s", "e", "c", "u", "r", "e", "=", "0",
          "&", "a", "l", "l", "o", "w", "_", "i", "n", "s", "e", "c", "u", "r", "e", "=", "1">>)>> }

UrlInputs ==
  { [kind |-> "url", scheme |-> sc, credential |-> cr, host |-> h, port |-> pt,
     query |-> q, fragment |-> fr] :
    sc \in UrlSchemes,
    cr \in {<<>>, <<T(<<"u">>)>>, <<T(<<"u", ":", "p">>)>>},
    h \in {T(<<"h">>), S_example},
    pt \in {<<>>, <<S_443>>},
    q \in UrlQueries,
    fr \in {<<>>, <<T(<<"M", "y", "%", "2", "0", "N", "o", "d", "e">>)>>} }

UrlInputLink(i) ==
  i.scheme \o T(<<":", "/", "/">>)
  \o (IF i.credential = <<>> THEN <<>> ELSE i.credential[1] \o <<Ord("@")>>)
  \o i.host
  \o (IF i.port = <<>> THEN <<>> ELSE <<Ord(":")>> \o i.port[1])
  \o (IF i.query = <<>> THEN <<>> ELSE <<Ord("?")>> \o i.query[1])
  \o (IF i.fragment = <<>> THEN <<>> ELSE <<Ord("#")>> \o i.fragment[1])

\* A node record handed to generate_link.  `type` is a tuple of no or one str:
\* a record may lack the key.
\* The types generate_link has an encoder for.
EncodableTypes ==
  { T(<<"s", "s">>), T(<<"v", "m", "e", "s", "s">>), T(<<"v", "l", "e", "s", "s">>),
    T(<<"t", "r", "o", "j", "a", "n">>) }

NodeTypes ==
  { <<T(<<"s", "s">>)>>, <<T(<<"v", "m", "e", "s", "s">>)>>, <<T(<<"v", "l", "e", "s", "s">>)>>,
    <<T(<<"t", "r", "o", "j", "a", "n">>)>>, <<T(<<"s", "s", "r">>)>>, <<>> }

NodeOf(type, name, server, portno) ==
  (IF type = <<>> THEN <<>> ELSE [type |-> PyStr(type[1])])
  @@ [name |-> PyStr(name), server |-> PyStr(server), port |-> PyInt(portno),
      method |-> PyStr(S_gcm), password |-> PyStr(S_hunter2), uuid |-> PyStr(T(<<"u", "1">>))]

NodeInputs ==
  { [kind |-> "node", node |-> NodeOf(ty, nm, sv, pt)] :
    ty \in NodeTypes, nm \in {T(<<"n">>), S_MyNode}, sv \in {T(<<"h">>), S_example},
    pt \in {1, 443, 65535} }

\* Types generate_link has no encoder for.
UnsupportedTypes ==
  { T(<<"s", "s", "r">>), T(<<"h", "y", "s", "t", "e", "r", "i", "a">>), T(<<"t", "u", "i", "c">>),
    T(<<"s", "o", "c", "k", "s", "5">>), T(<<"h", "t", "t", "p">>), T(<<"s", "n", "e", "l", "l">>),
    T(<<"w", "i", "r", "e", "g", "u", "a", "r", "d">>), T(<<"r", "e", "a", "l", "i", "t", "y">>),
    T(<<"n", "a", "i", "v", "e">>), T(<<"S", "S">>), T(<<"s", "s", ":", "/", "/">>) }

UnsupportedInputs ==
  { [kind |-> "node", node |-> NodeOf(<<ty>>, nm, T(<<"h">>), 443)] :
    ty \in UnsupportedTypes, nm \in {<<>>, T(<<"n">>)} }

\* Records whose password is the lone surrogate U+D800, as json.loads returns
\* for the JSON text "\ud800".
SurrogateInputs ==
  { [kind |-> "node",
     node |-> [NodeOf(<<ty>>, T(<<"n">>), T(<<"h">>), 443) EXCEPT !.password = PyStr(<<55296>>)]] :
    ty \in EncodableTypes }

\* A field of a record that may be absent: <<>> or <<value>>.
Field(key, opt) == IF opt = <<>> THEN <<>> ELSE (key :> PyStr(opt[1]))

\* VLESS and Trojan records with and without each optional field.
OptionInputs ==
  { [kind |-> "node",
     node |-> Field("network", nw) @@ Field("security", sc)
              @@ [path |-> PyStr(pa), host |-> PyStr(ho), sni |-> PyStr(sn)]
              @@ NodeOf(<<ty>>, nm, T(<<"h">>), 443)] :
    ty \in {T(<<"v", "l", "e", "s", "s">>), T(<<"t", "r", "o", "j", "a", "n">>)},
    nw \in {<<>>, << <<>> >>, <<T(<<"t", "c", "p">>)>>, <<T(<<"w", "s">>)>>},
    sc \in {<< <<>> >>, <<T(<<"n", "o", "n", "e">>)>>, <<T(<<"t", "l", "s">>)>>},
    pa \in {<<>>, T(<<"/", "p">>)}, ho \in {<<>>, T(<<"x">>)}, sn \in {<<>>, T(<<"y">>)},
    nm \in {<<>>, T(<<"n">>)} }

Inputs ==
  RawInputs \cup Sip002Inputs \cup LegacyInputs \cup VmessInputs \cup SsrInputs
  \cup UrlInputs \cup NodeInputs \cup UnsupportedInputs \cup SurrogateInputs \cup OptionInputs

\* The link text an input stands for (none for a node record).
LinkOf(i) ==
  CASE i.kind = "raw"    -> i.text
    [] i.kind = "sip002" -> Sip002Link(i)
    [] i.kind = "legacy" -> LegacyLink(i)
    [] i.kind = "vmess"  -> VmessLink(i)
    [] i.kind = "ssr"    -> SsrLink(i)
    [] i.kind = "url"    -> UrlInputLink(i)
    [] OTHER             -> <<>>

(***************************************************************************)
(* The state machine: one call of the codec per behaviour                  *)
(***************************************************************************)

NoOutcome == [isNone |-> TRUE, decoder |-> "None", dict |-> <<>>]

Init ==
  /\ input \in Inputs
  /\ pc = IF input.kind = "node" THEN "generate" ELSE "parse"
  /\ link = LinkOf(input)
  /\ outcome = NoOutcome
  /\ encoded = <<>>
  /\ nodes_file = <<>>
  /\ request = <<>>
  /\ at = <<>>
  /\ lines = <<>>
  /\ response = <<>>

\* parser.parse_link(link)
ParseLink ==
  /\ pc = "parse"
  /\ outcome' = parse_link(link)
  /\ pc' = "done"
  /\ UNCHANGED <<input, link, encoded>>
  /\ UNCHANGED appVars

\* parser.generate_link(node); the link it returns is then parsed back.
GenerateLink ==
  /\ pc = "generate"
  /\ encoded' = generate_link(input.node)
  /\ link' = encoded'
  /\ pc' = "parse"
  /\ UNCHANGED <<input, outcome>>
  /\ UNCHANGED appVars

Next == ParseLink \/ GenerateLink

Spec == Init /\ [][Next]_vars


(***************************************************************************)
(* app.py: the node file and the handlers that read and rewrite it         *)
(***************************************************************************)

\* The requests served at the same time, one per thread of the server.
Threads == {1, 2}

\* The largest node_id of a request to /api/node/<node_id>.
MaxNodeId == 2

IsNonBlank(line) == line # <<>>

IsListed(line) == ~StartsWith(line, <<Ord("#")>>)

StripAll(ls) == [i \in DOMAIN ls |-> Strip(ls[i])]

\* [line.strip() for line in f.readlines() if line.strip()]
ReadLines(text) == SelectSeq(StripAll(Split(text, Ord("\n"))), IsNonBlank)

\* [line.strip() for line in f if line.strip() and not line.strip().startswith('#')]
ListedLines(text) == SelectSeq(ReadLines(text), IsListed)

\* 0 <= node_id < len(lines)
InRange(node_id, ls) == 0 <= node_id /\ node_id < Len(ls)

\* lines[node_id] = new_link
Replaced(ls, node_id, new_link) == [ls EXCEPT ![node_id + 1] = new_link]

\* lines.pop(node_id)
Popped(ls, node_id) == SubSeq(ls, 1, node_id) \o SubSeq(ls, node_id + 2, Len(ls))

\* What f.write(text) leaves in a file opened with open(NODES_FILE, 'w'): the
\* text from offset 0, then whatever another writer has put beyond its end
\* since the file was truncated.
Written(file, text) == text \o SubSeq(file, Len(text) + 1, Len(file))

NoResponse == [status |-> 0, body |-> <<>>]

\* What manage_node does once it has read `lines`: the status it answers, the
\* body of a GET, and whether it rewrites the file, with which lines.
Reply(status, body, ls) == [status |-> status, body |-> body, rewrite |-> FALSE, lines |-> ls]

Rewrite(ls) == [status |-> 200, body |-> <<>>, rewrite |-> TRUE, lines |-> ls]

\* A PUT that rewrites the file whatever generate_link returned.
PutLink_AlwaysWrites(req, ls, new_link) == Rewrite(Replaced(ls, req.node_id, new_link))

PutLink(req, ls, new_link) ==
  IF new_link # <<>> THEN Rewrite(Replaced(ls, req.node_id, new_link))
  ELSE Reply(400, <<>>, ls)

\* data is None for the JSON body null: generate_link raises AttributeError,
\* which the handler answers with 500.
PutNode(req, ls) ==
  IF req.data = <<>> THEN Reply(500, <<>>, ls)
  ELSE PutLink(req, ls, generate_link(req.data[1]))

ManageNode(req, ls) ==
  CASE ~InRange(req.node_id, ls) -> Reply(404, <<>>, ls)
    [] req.method = "GET"        -> Reply(200, parse_link(ls[req.node_id + 1]), ls)
    [] req.method = "PUT"        -> PutNode(req, ls)
    [] OTHER                     -> Rewrite(Popped(ls, req.node_id))

\* node_info of parse_nodes_api for the line at position idx of its list.
InfoOf(idx, line) ==
  [name   |-> <<33410, 28857>> \o IntToStr(idx + 1),
   type   |-> Shadowsocks,
   server |-> line,
   port   |-> <<>>]

\* node_info.update({...}) after the three splits; a split that does not
\* give two parts raises and the bare except leaves node_info as it was.
InfoSsFields(info, f) ==
  IF ~f.ok THEN info
  ELSE [method |-> f.method, password |-> f.password]
       @@ [info EXCEPT !.server = f.host, !.port = f.port]

InfoSsConfig(info, config_part) ==
  IF Contains(config_part, Ord("@"))
  THEN InfoSsFields(info, SsSip002Halves(Split(config_part, Ord("@"))))
  ELSE info

\* config_part, name_part = encoded.split('#', 1) when encoded holds a '#'.
InfoSs(info, parts) ==
  IF parts.found THEN InfoSsConfig([info EXCEPT !.name = unquote(parts.tail)], parts.head)
  ELSE InfoSsConfig(info, parts.head)

InfoType(line) ==
  CASE StartsWith(line, T(<<"v", "m", "e", "s", "s", ":", "/", "/">>)) -> VMess
    [] StartsWith(line, T(<<"v", "l", "e", "s", "s", ":", "/", "/">>)) -> VLESS
    [] StartsWith(line, T(<<"t", "r", "o", "j", "a", "n", ":", "/", "/">>)) -> Trojan
    [] StartsWith(line, T(<<"s", "s", "r", ":", "/", "/">>)) -> ShadowsocksR
    [] OTHER -> Shadowsocks

NodeInfo(idx, line) ==
  IF StartsWith(line, T(<<"s", "s", ":", "/", "/">>))
  THEN InfoSs(InfoOf(idx, line), Partition(SliceFrom(line, 5), Ord("#")))
  ELSE [InfoOf(idx, line) EXCEPT !.type = InfoType(line)]

\* {"nodes": nodes, "total": len(nodes)}
NodesOf(ls) == [nodes |-> [i \in DOMAIN ls |-> NodeInfo(i - 1, ls[i])], total |-> Len(ls)]

\* The requests.
L_ss      == T(<<"s", "s", ":", "/", "/", "h", ":", "1", ":", "m", ":", "p">>)
L_sip     == T(<<"s", "s", ":", "/", "/", "m", ":", "p", "@", "h", ":", "1", "#", "M", "y", "%", "2", "0", "N">>)
L_vless   == T(<<"v", "l", "e", "s", "s", ":", "/", "/", "u", "@", "h", ":", "1", "#", "n">>)
L_trojan  == T(<<" ", "t", "r", "o", "j", "a", "n", ":", "/", "/", "p", "@", "h", ":", "1", " ">>)
L_comment == T(<<"#", "c">>)

\* Contents of the node file: empty; two links; a comment line first and a
\* blank line between two links; padded lines with a comment line last.
FileTexts ==
  { <<>>,
    Join(<<L_ss, L_vless, <<>>>>, Ord("\n")),
    Join(<<L_comment, L_ss, <<>>, L_vless>>, Ord("\n")),
    Join(<<L_sip, T(<<" ", " ">>), L_trojan, L_comment, <<>>>>, Ord("\n")) }

FileInputs == { [kind |-> "file", text |-> t] : t \in FileTexts }

\* The JSON body of a PUT: null, a VLESS record, a record without encoder.
PutData ==
  { <<>>,
    <<NodeOf(<<T(<<"v", "l", "e", "s", "s">>)>>, T(<<"n", "2">>), T(<<"h">>), 443)>>,
    <<NodeOf(<<T(<<"w", "i", "r", "e", "g", "u", "a", "r", "d">>)>>, T(<<"n", "2">>), T(<<"h">>), 443)>> }

ManageRequests ==
  { [handler |-> "manage_node", method |-> m, node_id |-> id, data |-> d, content |-> <<>>] :
    m \in {"GET", "PUT", "DELETE"}, id \in 0..MaxNodeId, d \in PutData }
  \ { q \in [handler : {"manage_node"}, method : {"GET", "DELETE"}, node_id : 0..MaxNodeId,
             data : PutData, content : {<<>>}] : q.data # <<>> }

Requests ==
  ManageRequests
  \cup { [handler |-> "parse_nodes_api", method |-> "GET", node_id |-> 0, data |-> <<>>,
          content |-> <<>>] }
  \cup { [handler |-> "update_nodes", method |-> "POST", node_id |-> 0, data |-> <<>>,
          content |-> c] : c \in {<<>>, Join(<<L_comment, L_ss, <<>>>>, Ord("\n"))} }

AppInit ==
  /\ input \in FileInputs
  /\ nodes_file = input.text
  /\ request \in [Threads -> Requests]
  /\ at = [r \in Threads |-> "start"]
  /\ lines = [r \in Threads |-> <<>>]
  /\ response = [r \in Threads |-> NoResponse]
  /\ pc = "idle"
  /\ link = <<>>
  /\ outcome = NoOutcome
  /\ encoded = <<>>

\* manage_node: with open(NODES_FILE, 'r') ... lines = [...]
ManageNodeRead(r) ==
  /\ request[r].handler = "manage_node"
  /\ at[r] = "start"
  /\ lines' = [lines EXCEPT ![r] = ReadLines(nodes_file)]
  /\ at' = [at EXCEPT ![r] = "serve"]
  /\ UNCHANGED <<nodes_file, response, request, input, codecVars>>

\* The step `todo` of manage_node after the read: it answers, or it changes
\* its list and opens NODES_FILE for writing, which truncates the file.
Served(r, todo) ==
  IF todo.rewrite
  THEN /\ lines' = [lines EXCEPT ![r] = todo.lines]
       /\ nodes_file' = <<>>
       /\ at' = [at EXCEPT ![r] = "write"]
       /\ UNCHANGED response
  ELSE /\ response' = [response EXCEPT ![r] = [status |-> todo.status, body |-> todo.body]]
       /\ at' = [at EXCEPT ![r] = "done"]
       /\ UNCHANGED <<nodes_file, lines>>

ManageNodeServe(r) ==
  /\ request[r].handler = "manage_node"
  /\ at[r] = "serve"
  /\ Served(r, ManageNode(request[r], lines[r]))
  /\ UNCHANGED <<request, input, codecVars>>

\* f.write('\n'.join(lines)), the file is closed and the handler answers.
ManageNodeWrite(r) ==
  /\ request[r].handler = "manage_node"
  /\ at[r] = "write"
  /\ nodes_file' = Written(nodes_file, Join(lines[r], Ord("\n")))
  /\ response' = [response EXCEPT ![r] = [status |-> 200, body |-> <<>>]]
  /\ at' = [at EXCEPT ![r] = "done"]
  /\ UNCHANGED <<lines, request, input, codecVars>>

\* parse_nodes_api: the file is read and the list is built and returned.
ParseNodes(r) ==
  /\ request[r].handler = "parse_nodes_api"
  /\ at[r] = "start"
  /\ lines' = [lines EXCEPT ![r] = ListedLines(nodes_file)]
  /\ response' = [response EXCEPT ![r] = [status |-> 200, body |-> NodesOf(ListedLines(nodes_file))]]
  /\ at' = [at EXCEPT ![r] = "done"]
  /\ UNCHANGED <<nodes_file, request, input, codecVars>>

\* update_nodes: open(NODES_FILE, 'w') truncates the file.
UpdateNodesOpen(r) ==
  /\ request[r].handler = "update_nodes"
  /\ at[r] = "start"
  /\ nodes_file' = <<>>
  /\ at' = [at EXCEPT ![r] = "write"]
  /\ UNCHANGED <<lines, response, request, input, codecVars>>

\* update_nodes: f.write(content), the file is closed and the handler answers.
UpdateNodesWrite(r) ==
  /\ request[r].handler = "update_nodes"
  /\ at[r] = "write"
  /\ nodes_file' = Written(nodes_file, request[r].content)
  /\ response' = [response EXCEPT ![r] = [status |-> 200, body |-> <<>>]]
  /\ at' = [at EXCEPT ![r] = "done"]
  /\ UNCHANGED <<lines, request, input, codecVars>>

AppNext ==
  \E r \in Threads :
    \/ ManageNodeRead(r)
    \/ ManageNodeServe(r)
    \/ ManageNodeWrite(r)
    \/ ParseNodes(r)
    \/ UpdateNodesOpen(r)
    \/ UpdateNodesWrite(r)

AppSpec == AppInit /\ [][AppNext]_vars


(***************************************************************************)
(* Properties                                                              *)
(***************************************************************************)

\* parse_link returned a dict with an 'error' key.
IsFailure(o) == ~o.isNone /\ "error" \in DOMAIN o.dict

\* parse_link returned a node record.
IsRecord(o) == ~o.isNone /\ "error" \notin DOMAIN o.dict

\* The call of parse_link has returned.
Parsed == pc = "done"

\* C1: for ss, vmess, vless and trojan and every record r with a non-empty
\* name, a non-empty server and a port in 1..65535, parse_link(generate_link(r))
\* is a successful record equal to r in type, name, server and port.
C1_RoundTrip ==
  (/\ Parsed
   /\ input.kind = "node"
   /\ "type" \in DOMAIN input.node
   /\ input.node.type.s \in EncodableTypes)
  => /\ IsRecord(outcome)
     /\ outcome.dict.type = input.node.type
     /\ outcome.dict.name = input.node.name
     /\ outcome.dict.server = input.node.server
     /\ outcome.dict.port = input.node.port

Base64Decoders == {"_parse_shadowsocks", "_parse_vmess", "_parse_shadowsocksr"}

\* C2: whenever a link with a recognized scheme fails to decode in one of the
\* base64-based protocols (ss, vmess, ssr), the failure returned by parse_link
\* carries a message and a raw-text field equal to the input with only the
\* surrounding whitespace trimmed.
C2_FailureKeepsRaw ==
  (Parsed /\ IsFailure(outcome) /\ outcome.decoder \in Base64Decoders)
  => /\ outcome.dict.error.s # <<>>
     /\ "raw" \in DOMAIN outcome.dict
     /\ outcome.dict.raw = PyStr(Strip(link))

\* The ten prefixes the claim names, each with the decoder of its protocol.
C3_Prefixes ==
  { <<T(<<"s", "s", ":", "/", "/">>), "_parse_shadowsocks">>,
    <<T(<<"v", "m", "e", "s", "s", ":", "/", "/">>), "_parse_vmess">>,
    <<T(<<"v", "l", "e", "s", "s", ":", "/", "/">>), "_parse_vless">>,
    <<T(<<"t", "r", "o", "j", "a", "n", ":", "/", "/">>), "_parse_trojan">>,
    <<T(<<"s", "s", "r", ":", "/", "/">>), "_parse_shadowsocksr">>,
    <<T(<<"h", "y", "s", "t", "e", "r", "i", "a", ":", "/", "/">>), "_parse_hysteria">>,
    <<T(<<"t", "u", "i", "c", ":", "/", "/">>), "_parse_tuic">>,
    <<T(<<"s", "n", "e", "l", "l", ":", "/", "/">>), "_parse_snell">>,
    <<T(<<"s", "o", "c", "k", "s", "5", ":", "/", "/">>), "_parse_socks5">>,
    <<T(<<"h", "t", "t", "p", ":", "/", "/">>), "_parse_http">> }

\* C3: parse_link returns None for every input whose trimmed text begins,
\* case-sensitively, with none of the ten prefixes (so for "", " ",
\* "unknown://x" and any sss:// link), and every input that begins with one of
\* them is handed to the decoder of that prefix and to no other.
C3_DispatchIsPrefixExact ==
  Parsed =>
    LET trimmed == Strip(link)
        hits    == {e \in C3_Prefixes : StartsWith(trimmed, e[1])}
    IN  /\ hits = {} => outcome.isNone /\ outcome.decoder = "None"
        /\ \A e \in hits : ~outcome.isNone /\ outcome.decoder = e[2]

\* An sss:// link has been parsed and was not recognized.
C3_Witness ==
  /\ Parsed
  /\ link = T(<<"s", "s", "s", ":", "/", "/", "h", ":", "1", ":", "m", ":", "p">>)
  /\ outcome.isNone

\* C4: a SIP002 link ss:// + base64("method:password@host:port") + "#" + label
\* decodes to a successful record with server = host, port = the integer port,
\* method and password as encoded, and name = label.
C4_Sip002Decodes ==
  (Parsed /\ input.kind = "sip002")
  => /\ IsRecord(outcome)
     /\ outcome.dict.server = PyStr(input.host)
     /\ outcome.dict.port = PyInt(DigitsValue(input.port))
     /\ outcome.dict.method = PyStr(input.method)
     /\ outcome.dict.password = PyStr(input.password)
     /\ outcome.dict.name = PyStr(input.label)

\* What C5 says of a legacy body, given its colon-separated fields.
LegacyAsClaimed(fields) ==
  IF Len(fields) >= 4
  THEN /\ IsRecord(outcome)
       /\ outcome.dict.server = PyStr(fields[1])
       /\ outcome.dict.port = PyInt(DigitsValue(fields[2]))
       /\ outcome.dict.method = PyStr(fields[3])
       /\ outcome.dict.password = PyStr(fields[4])
  ELSE IsFailure(outcome)

\* C5: a legacy link ss://host:port:method:password with at least four
\* colon-separated fields decodes to a successful record with server, port (as
\* an integer), method and password taken from fields 1 to 4; with fewer than
\* four fields the outcome is a decode failure.
C5_LegacyDecodes ==
  (Parsed /\ input.kind = "legacy") => LegacyAsClaimed(input.fields)

\* The part of C5 the code keeps: legacy bodies without '@'.
C5_LegacyDecodesWithoutAt ==
  (Parsed /\ input.kind = "legacy" /\ ~Contains(LegacyLink(input), Ord("@")))
  => LegacyAsClaimed(input.fields)


\* The name C6 and C9 expect of a link in URI form: the percent-decoded
\* fragment when there is one, else "<Tag>-<host>:<port>".
UrlNameAsClaimed(i, tag) ==
  IF i.fragment # <<>> THEN PyStr(unquote(i.fragment[1]))
  ELSE PyStr(tag \o <<Ord("-")>> \o Lower(i.host) \o <<Ord(":")>>
             \o (IF i.port = <<>> THEN T(<<"N", "o", "n", "e">>) ELSE i.port[1]))

\* The protocol tag of each scheme that is decoded in URI form.
UrlTag(scheme) ==
  CASE scheme = T(<<"v", "l", "e", "s", "s">>)                -> VLESS
    [] scheme = T(<<"t", "r", "o", "j", "a", "n">>)           -> Trojan
    [] scheme = T(<<"t", "u", "i", "c">>)                     -> TUIC
    [] scheme = T(<<"h", "y", "s", "t", "e", "r", "i", "a">>) -> Hysteria
    [] scheme = T(<<"s", "n", "e", "l", "l">>)                -> Snell
    [] scheme = T(<<"s", "o", "c", "k", "s", "5">>)           -> SOCKS5
    [] OTHER                                                  -> HTTP

\* C6: every successful record returned by parse_link has a non-empty name:
\* the label carried by the link when there is one (the fragment of a link in
\* URI form, the label of a SIP002 link), the synthesized "<Tag>-<host>:<port>"
\* otherwise; this includes a VMess payload whose ps is present but empty.
C6_NameNeverEmpty ==
  (Parsed /\ IsRecord(outcome))
  => /\ outcome.dict.name.t = "str"
     /\ outcome.dict.name.s # <<>>
     /\ input.kind = "url" => outcome.dict.name = UrlNameAsClaimed(input, UrlTag(input.scheme))
     /\ input.kind = "sip002" => outcome.dict.name = PyStr(input.label)

\* The part of C6 the code keeps: a record's name is never None.
C6_NameIsAStr ==
  (Parsed /\ IsRecord(outcome)) => outcome.dict.name.t = "str"

\* The record's value for an optional VMess key: the one in the payload when
\* the key is present, the default when it is missing.
VmessExpect(i, k, given, default) == IF k \in i.present THEN given ELSE default

\* "VMess-<add>:<port>" for the payloads of VmessInputs.
VmessFallbackName == PyStr(VMess \o <<Ord("-")>> \o S_example \o <<Ord(":")>> \o S_443)

\* C7: decoding a VMess link maps add to server, port to the integer port and
\* id to uuid; a missing aid gives alterId 0, a missing tls gives "none", a
\* missing scy gives security "auto", a missing net gives network "tcp", and a
\* missing ps gives the name "VMess-<add>:<port>".
C7_VmessDefaults ==
  (Parsed /\ input.kind = "vmess")
  => /\ IsRecord(outcome)
     /\ outcome.dict.server = PyStr(S_example)
     /\ outcome.dict.port = PyInt(443)
     /\ outcome.dict.uuid = PyStr(T(<<"u", "1">>))
     /\ outcome.dict.alterId = VmessExpect(input, "aid", PyInt(2), PyInt(0))
     /\ outcome.dict.tls = VmessExpect(input, "tls", PyStr(T(<<"t", "l", "s">>)), PyStr(T(<<"n", "o", "n", "e">>)))
     /\ outcome.dict.security = VmessExpect(input, "scy", PyStr(T(<<"z", "e", "r", "o">>)), PyStr(T(<<"a", "u", "t", "o">>)))
     /\ outcome.dict.network = VmessExpect(input, "net", PyStr(T(<<"w", "s">>)), PyStr(T(<<"t", "c", "p">>)))
     /\ outcome.dict.name = VmessExpect(input, "ps", PyStr(input.ps), VmessFallbackName)

\* A VMess payload with none of the optional keys has been decoded, its port
\* given as a JSON string, and every default was applied.
C7_Witness ==
  /\ Parsed
  /\ input.kind = "vmess" /\ input.present = {} /\ input.port = PyStr(S_443)
  /\ outcome.dict.alterId = PyInt(0)
  /\ outcome.dict.port = PyInt(443)
  /\ outcome.dict.name = VmessFallbackName

\* What C8's decoded fields have in common in both readings of the remarks
\* rule: the failure below six fields, server, port and the decoded password.
SsrFieldsAsClaimed(i, nm) ==
  IF i.n < 6 THEN IsFailure(outcome)
  ELSE /\ IsRecord(outcome)
       /\ outcome.dict.server = PyStr(i.host)
       /\ outcome.dict.port = PyInt(DigitsValue(i.port))
       /\ outcome.dict.password = PyStr(i.password)
       /\ outcome.dict.name = PyStr(nm)

\* "SSR-<host>:<port>"
SsrFallbackName(i) == T(<<"S", "S", "R", "-">>) \o i.host \o <<Ord(":")>> \o i.port

\* C8 as stated: decoding a ShadowsocksR link whose decoded body is
\* host:port:protocol:method:obfs:password_b64 with optional ?params: remarks,
\* whenever the parameter is present, is base64-decoded and becomes name, and
\* name is "SSR-<host>:<port>" when it is absent; the password is
\* base64-decoded; a body with fewer than six colon-separated fields is a
\* decode failure.
C8_SsrRemarksWheneverPresent ==
  (Parsed /\ input.kind = "ssr")
  => SsrFieldsAsClaimed(input, IF input.remarks = <<>> THEN SsrFallbackName(input)
                               ELSE input.remarks[1])

\* C8, amended: as above, but remarks becomes name only when the parameter is
\* present with a non-empty value; "remarks=" with an empty value is dropped by
\* the query-string parser and name is "SSR-<host>:<port>" as if it were absent.
C8_SsrDecodes ==
  (Parsed /\ input.kind = "ssr")
  => SsrFieldsAsClaimed(input, IF input.remarks = <<>> \/ input.remarks[1] = <<>>
                               THEN SsrFallbackName(input)
                               ELSE input.remarks[1])

\* A ShadowsocksR link with remarks ">>>" (base64 "Pj4+") has been decoded and
\* the remarks became its name.
C8_Witness ==
  /\ Parsed
  /\ input.kind = "ssr" /\ input.n = 6 /\ input.remarks = <<T(<<">", ">", ">">>)>>
  /\ IsRecord(outcome)
  /\ outcome.dict.name = PyStr(T(<<">", ">", ">">>))

\* The credential of a URI-form input as a value: None when there is none.
CredentialOf(i) == IF i.credential = <<>> THEN PyNone ELSE PyStr(i.credential[1])

\* C9: decoding a VLESS or Trojan link scheme://credential@host:port?query#fragment
\* through parse_link: the credential becomes uuid (VLESS) or password (Trojan);
\* a fragment, when present, is percent-decoded and becomes name, and only when
\* it is absent is name "VLESS-<host>:<port>" / "Trojan-<host>:<port>"; a missing
\* query or fragment causes no failure.  (The credential is compared for
\* credentials without ':'.)
C9_UrlFragmentIsName ==
  (/\ Parsed
   /\ input.kind = "url"
   /\ input.scheme \in {T(<<"v", "l", "e", "s", "s">>), T(<<"t", "r", "o", "j", "a", "n">>)})
  => /\ IsRecord(outcome)
     /\ ~Contains(CredentialOf(input).s, Ord(":")) =>
          IF input.scheme = T(<<"v", "l", "e", "s", "s">>)
          THEN outcome.dict.uuid = CredentialOf(input)
          ELSE outcome.dict.password = CredentialOf(input)
     /\ outcome.dict.name = UrlNameAsClaimed(input, UrlTag(input.scheme))

\* The part of C9 the code keeps: the credential, and the synthesized name of a
\* link that carries no fragment.
C9_UrlWithoutFragment ==
  (/\ Parsed
   /\ input.kind = "url"
   /\ input.fragment = <<>>
   /\ input.scheme \in {T(<<"v", "l", "e", "s", "s">>), T(<<"t", "r", "o", "j", "a", "n">>)})
  => /\ IsRecord(outcome)
     /\ outcome.dict.name = UrlNameAsClaimed(input, UrlTag(input.scheme))

\* U and P of a TUIC user-info "U:P": P is '' when there is no colon.
TuicAsClaimed(cred) ==
  LET up == Partition(cred, Ord(":"))
  IN  [uuid |-> PyStr(up.head), password |-> PyStr(up.tail)]

\* The first allow_insecure value of the queries of UrlQueries is "1" (written
\* 1 or %31) in exactly these.
AllowInsecureIsOne(q) ==
  q # <<>> /\ StartsWith(q[1], T(<<"a", "l", "l", "o", "w", "_", "i", "n", "s", "e", "c", "u", "r", "e", "=">>))
           /\ ~StartsWith(q[1], T(<<"a", "l", "l", "o", "w", "_", "i", "n", "s", "e", "c", "u", "r", "e", "=", "0">>))

\* C10: decoding tuic://U:P@host:port gives uuid = U and password = P, the
\* password being '' when the user-info has no colon; congestion_control,
\* udp_relay_mode and alpn default to bbr, native and h3; allow_insecure is
\* true exactly when the query value is "1".
C10_TuicCredential ==
  (/\ Parsed
   /\ input.kind = "url"
   /\ input.scheme = T(<<"t", "u", "i", "c">>)
   /\ input.credential # <<>>)
  => /\ IsRecord(outcome)
     /\ outcome.dict.uuid = TuicAsClaimed(input.credential[1]).uuid
     /\ outcome.dict.password = TuicAsClaimed(input.credential[1]).password
     /\ outcome.dict.congestion_control = PyStr(T(<<"b", "b", "r">>))
     /\ outcome.dict.udp_relay_mode = PyStr(T(<<"n", "a", "t", "i", "v", "e">>))
     /\ (input.query = <<>> \/ ~Contains(input.query[1], Ord("&"))) => outcome.dict.alpn = PyStr(T(<<"h", "3">>))
     /\ outcome.dict.allow_insecure = PyBool(AllowInsecureIsOne(input.query))

\* The part of C10 the code keeps: everything but the password.
C10_TuicWithoutPassword ==
  (/\ Parsed
   /\ input.kind = "url"
   /\ input.scheme = T(<<"t", "u", "i", "c">>)
   /\ input.credential # <<>>)
  => /\ IsRecord(outcome)
     /\ outcome.dict.uuid = TuicAsClaimed(input.credential[1]).uuid
     /\ outcome.dict.password = PyStr(<<>>)
     /\ outcome.dict.congestion_control = PyStr(T(<<"b", "b", "r">>))
     /\ outcome.dict.udp_relay_mode = PyStr(T(<<"n", "a", "t", "i", "v", "e">>))
     /\ outcome.dict.allow_insecure = PyBool(AllowInsecureIsOne(input.query))

\* generate_link(input.node) has returned; encoded holds what it returned.
HasGenerated == input.kind = "node" /\ pc # "generate"

\* The record's type is one of ss, vmess, vless, trojan.
IsEncodable(node) == "type" \in DOMAIN node /\ node.type.s \in EncodableTypes

\* A text str.encode() raises on: it holds a surrogate code point.
HasSurrogate(v) == v.t = "str" /\ \E i \in DOMAIN v.s : v.s[i] \in 55296..57343

\* The Shadowsocks encoder cannot encode the record's credentials.
SsUnencodable(node) ==
  /\ node.type.s = T(<<"s", "s">>)
  /\ \E k \in {"method", "password", "server", "port"} : k \in DOMAIN node /\ HasSurrogate(node[k])

SchemeOf(node) == node.type.s \o T(<<":", "/", "/">>)

\* C11: generate_link never raises: it returns the empty string for every
\* record whose type is not one of ss, vmess, vless, trojan (a missing type
\* included), and a non-empty link that begins with the type's scheme prefix
\* for every record of the four supported types.
C11_SupportedTypeGivesLink ==
  HasGenerated =>
    IF IsEncodable(input.node)
    THEN encoded # <<>> /\ StartsWith(encoded, SchemeOf(input.node))
    ELSE encoded = <<>>

\* C11, amended: as above, except that a Shadowsocks record whose method,
\* password, server or port holds a lone surrogate cannot be UTF-8 encoded and
\* gives the empty string too.
C11_EmptyOrPrefixed ==
  HasGenerated =>
    IF IsEncodable(input.node) /\ ~SsUnencodable(input.node)
    THEN encoded # <<>> /\ StartsWith(encoded, SchemeOf(input.node))
    ELSE encoded = <<>>

\* generate_link has returned '' for a wireguard record.
C11_Witness ==
  /\ HasGenerated
  /\ "type" \in DOMAIN input.node
  /\ input.node.type.s = T(<<"w", "i", "r", "e", "g", "u", "a", "r", "d">>)
  /\ encoded = <<>>

\* The decoder C12 describes, for the text after "ss://": the SIP002 fields of
\* the base64-decoded text when that text holds '@' and splits as
\* method:password@host:port, the legacy colon-split of the body otherwise.
SsClaimedSplit(enc, sip002) == SsFields(IF sip002.ok THEN sip002 ELSE SsLegacyFields(enc))

SsClaimedDecoded(enc, decoded) ==
  IF decoded.ok /\ Contains(decoded.s, Ord("@"))
  THEN SsClaimedSplit(enc, SsSip002Decoded(decoded))
  ELSE SsFields(SsLegacyFields(enc))

SsAsClaimed(enc) == SsClaimedDecoded(enc, b64decode_utf8(enc))

\* C12: the Shadowsocks decoder base64-decodes the text after ss:// first and
\* takes the SIP002 shape exactly when the decoded text holds '@'; when the
\* SIP002 split fails, and when there is no '@', it returns what the legacy
\* colon-split of the body gives.
C12_DecodeThenDiscriminate ==
  (Parsed /\ outcome.decoder = "_parse_shadowsocks")
  => outcome.dict = SsAsClaimed(SliceFrom(Prepare(link), 5))

\* What remains true in the code: a body without '@' whose base64 decoding
\* fails or gives a text without '@' is split as a legacy body.
C12_LegacyWithoutAt ==
  (/\ Parsed
   /\ outcome.decoder = "_parse_shadowsocks"
   /\ ~Contains(SliceFrom(Prepare(link), 5), Ord("@"))
   /\ outcome.dict # SsAsClaimed(SliceFrom(Prepare(link), 5)))
  => /\ b64decode_utf8(SliceFrom(Prepare(link), 5)).ok
     /\ Contains(b64decode_utf8(SliceFrom(Prepare(link), 5)).s, Ord("@"))

\* The text of a field of a record, '' when the record has no such field.
TextOf(node, key) == IF key \in DOMAIN node THEN node[key].s ELSE <<>>

EndsWith(s, suffix) ==
  Len(s) >= Len(suffix) /\ SubSeq(s, Len(s) - Len(suffix) + 1, Len(s)) = suffix

\* The query parameters C13 names: the key, the field of the record it
\* carries, and the value besides '' for which it is left out.
QueryParams ==
  { [key |-> K_type, field |-> "network", default |-> T(<<"t", "c", "p">>)],
    [key |-> T(<<"s", "e", "c", "u", "r", "i", "t", "y">>), field |-> "security",
     default |-> T(<<"n", "o", "n", "e">>)],
    [key |-> K_path, field |-> "path", default |-> <<>>],
    [key |-> K_host, field |-> "host", default |-> <<>>],
    [key |-> K_sni, field |-> "sni", default |-> <<>>] }

\* The parameters each encoder knows of.
EmittedBy(type) ==
  IF type = T(<<"v", "l", "e", "s", "s">>) THEN QueryParams
  ELSE {q \in QueryParams : q.field \in {"sni", "network"}}

\* The link has a query item that begins with `item`.
HasItem(lnk, item) ==
  \E i \in DOMAIN lnk :
    lnk[i] \in {Ord("?"), Ord("&")} /\ StartsWith(SliceFrom(lnk, i), item)

\* The value of the record is one the query omits.
IsDefault(node, q) == TextOf(node, q.field) \in {<<>>, q.default}

CredentialField(type) == IF type = T(<<"v", "l", "e", "s", "s">>) THEN "uuid" ELSE "password"

UrlBase(node) ==
  SchemeOf(node) \o TextOf(node, CredentialField(node.type.s)) \o <<Ord("@")>>
  \o TextOf(node, "server") \o <<Ord(":")>> \o IntToStr(node.port.n)

\* C13: the VLESS and Trojan encoders emit scheme://credential@server:port,
\* include a query parameter only when its value is non-empty and differs from
\* its default (type not for tcp or '', security not for none or '', path,
\* host, sni not for ''), emit no '?' when no parameter is included, and
\* append '#name' only when name is non-empty.  Each encoder does include the
\* parameters it knows of whenever the value is neither empty nor the default.
C13_DefaultsOmitted ==
  (/\ HasGenerated
   /\ "type" \in DOMAIN input.node
   /\ input.node.type.s \in {T(<<"v", "l", "e", "s", "s">>), T(<<"t", "r", "o", "j", "a", "n">>)})
  => /\ StartsWith(encoded, UrlBase(input.node))
     /\ \A q \in QueryParams :
          HasItem(encoded, q.key \o <<Ord("=")>>)
          => /\ ~IsDefault(input.node, q)
             /\ HasItem(encoded, q.key \o <<Ord("=")>> \o TextOf(input.node, q.field))
     /\ \A q \in EmittedBy(input.node.type.s) :
          ~IsDefault(input.node, q) => HasItem(encoded, q.key \o <<Ord("=")>>)
     /\ Contains(encoded, Ord("?"))
          <=> \E q \in QueryParams : HasItem(encoded, q.key \o <<Ord("=")>>)
     /\ IF TextOf(input.node, "name") = <<>> THEN ~Contains(encoded, Ord("#"))
        ELSE EndsWith(encoded, <<Ord("#")>> \o TextOf(input.node, "name"))

\* The VLESS encoder has returned a link with type=ws as its only parameter,
\* for a record whose security is the default and whose name is empty.
C13_Witness ==
  /\ HasGenerated
  /\ "network" \in DOMAIN input.node
  /\ input.node.network = PyStr(T(<<"w", "s">>))
  /\ input.node.security = PyStr(T(<<"n", "o", "n", "e">>))
  /\ input.node.name = PyStr(<<>>)
  /\ encoded = T(<<"v", "l", "e", "s", "s", ":", "/", "/", "u", "1", "@", "h", ":", "4", "4", "3",
                   "?", "t", "y", "p", "e", "=", "w", "s">>)

\* The request is a PUT or a DELETE on /api/node/<id>.
IsUpdate(req) == req.handler = "manage_node" /\ req.method \in {"PUT", "DELETE"}

\* The node file after a PUT or DELETE is served alone on a file holding `text`.
AppliedTodo(text, todo) == IF todo.rewrite THEN Join(todo.lines, Ord("\n")) ELSE text

Applied(req, text) == AppliedTodo(text, ManageNode(req, ReadLines(text)))

AllDone == \A r \in Threads : at[r] = "done"

\* C14: access to the node list is serialized: when two PUT or DELETE requests
\* on /api/node/<id> are served concurrently, the node file they leave is the
\* one that serving them one after the other, in one of the two orders, gives.
C14_Serialized ==
  (AllDone /\ \A r \in Threads : IsUpdate(request[r]))
  => \/ nodes_file = Applied(request[2], Applied(request[1], input.text))
     \/ nodes_file = Applied(request[1], Applied(request[2], input.text))

\* The PUT of thread r carries a record generate_link returns '' for.
Unencodable(req) == req.method = "PUT" /\ req.data # <<>> /\ generate_link(req.data[1]) = <<>>

\* Thread r takes a step of manage_node.
ManageStep(r) == request[r].handler = "manage_node" /\ at'[r] # at[r]

HasOpened(r) ==
  \/ at[r] = "write"
  \/ at[r] = "done" /\ response[r].status = 200 /\ request[r].method \in {"PUT", "DELETE", "POST"}

\* The listing of thread l and the lines thread m read are of the same file.
SameFile(l, m) ==
  /\ request[l].handler = "parse_nodes_api"
  /\ at[l] = "done"
  /\ request[m].handler = "manage_node"
  /\ at[m] = "serve"
  /\ \A r \in Threads : ~HasOpened(r)

\* Entry i of the listing is built from the line /api/node/<i> works on.
EntryAgrees(nodes, ls, i) == i < Len(ls) /\ nodes[i + 1] = NodeInfo(i, ls[i + 1])

\* C16: for every content of the node file the listing and the per-node
\* operations agree on indices: entry i of the list /api/parse_nodes returns is
\* built from the line that /api/node/<i> reads, replaces or removes, lines
\* that begin with '#' included.
C16_IndicesAgree ==
  \A l, m \in Threads :
    SameFile(l, m)
    => \A i \in 0..(response[l].body.total - 1) :
         EntryAgrees(response[l].body.nodes, lines[m], i)

\* What the code keeps: the indices agree up to the first line that begins
\* with '#'.
C16_AgreeBeforeComment ==
  \A l, m \in Threads :
    SameFile(l, m)
    => \A i \in 0..(response[l].body.total - 1) :
         (\A j \in 1..(i + 1) : j <= Len(lines[m]) => IsListed(lines[m][j]))
         => EntryAgrees(response[l].body.nodes, lines[m], i)

====
